---- MODULE Spec2Model ----
(***************************************************************************)
(* A model of release-me: the semver package (versions, styles), the       *)
(* changes package (the CHANGES document), and the reconciliation of the   *)
(* declared versions with branches, tags and releases in the main program. *)
(*                                                                         *)
(* Strings are sequences of one-character strings, so that the regular     *)
(* expressions, the conversions and the byte-wise comparisons of the Go    *)
(* code act on characters here too.                                        *)
(***************************************************************************)
EXTENDS Integers, Sequences, FiniteSets, TLC

VARIABLES
    semIn,      \* semver: the input of the last semver call
    semOut,     \* semver: what that call returned
    text,       \* changes: the text handed to Read
    readOk,     \* changes: whether Read returned a Content (no error)
    lines,      \* changes: Content.lines
    versions,   \* changes: Content.versions
    docOut,     \* changes: what the last call on the Content returned
    calls,      \* changes: the number of mutating calls made on the Content
    repo,       \* main: the fields of the repo struct that validate reads and writes
    scan,       \* main: the locals of createMissingBranchesAndTags
    pkg,        \* pkg: an Info and what the calls on it returned
    rel         \* main: the steps of doRelease and of the creation of missing releases

semVars == <<semIn, semOut>>
docVars == <<text, readOk, lines, versions, docOut, calls>>
repoVars == <<repo>>
scanVars == <<scan>>
vars == <<semIn, semOut, text, readOk, lines, versions, docOut, calls, repo, scan, pkg, rel>>

----------------------------------------------------------------------------
(* Characters and strings *)

\* The characters of the model, in byte order (Go compares strings byte-wise).
Ascii ==
    << "\n", " ", "#", "-", ".", "/",
       "0", "1", "2", "3", "4", "5", "6", "7", "8", "9",
       "A", "B", "C", "D", "E", "F", "G", "H", "I", "J", "K", "L", "M",
       "N", "O", "P", "Q", "R", "S", "T", "U", "V", "W", "X", "Y", "Z",
       "[", "]", "_",
       "a", "b", "c", "d", "e", "f", "g", "h", "i", "j", "k", "l", "m",
       "n", "o", "p", "q", "r", "s", "t", "u", "v", "w", "x", "y", "z" >>

Ord(c) == CHOOSE i \in 1..Len(Ascii) : Ascii[i] = c

\* \d of the regular expressions
Digit == {"0", "1", "2", "3", "4", "5", "6", "7", "8", "9"}

\* \w of the regular expressions: [0-9A-Za-z_]
WordCh == {Ascii[i] : i \in Ord("0")..Len(Ascii)}

\* The length of the longest run of characters of set cs in s that starts at i.
RECURSIVE Run(_, _, _)
Run(s, i, cs) ==
    IF i <= Len(s) /\ s[i] \in cs THEN 1 + Run(s, i + 1, cs) ELSE 0

\* Whether s holds character c at index i.
At(s, i, c) == i >= 1 /\ i <= Len(s) /\ s[i] = c

\* s[a-1:b-1] of Go for 1-based a and exclusive b: the characters a..b-1.
Sub(s, a, b) == SubSeq(s, a, b - 1)

\* a < b for Go strings: byte-wise lexicographic.
RECURSIVE StrLess(_, _)
StrLess(a, b) ==
    IF Len(b) = 0 THEN FALSE
    ELSE IF Len(a) = 0 THEN TRUE
    ELSE IF a[1] = b[1] THEN StrLess(Tail(a), Tail(b))
    ELSE Ord(a[1]) < Ord(b[1])

Range(f) == { f[i] : i \in DOMAIN f }

\* strings.Join(ss, sep)
RECURSIVE Join(_, _)
Join(ss, sep) ==
    IF Len(ss) = 0 THEN << >>
    ELSE IF Len(ss) = 1 THEN ss[1]
    ELSE ss[1] \o sep \o Join(Tail(ss), sep)

\* %d of fmt.Sprintf for n >= 0
RECURSIVE Itoa(_)
Itoa(n) ==
    IF n < 10 THEN << Ascii[Ord("0") + n] >>
    ELSE Itoa(n \div 10) \o << Ascii[Ord("0") + (n % 10)] >>

\* The decimal digits of the largest int (64 bit): 9223372036854775807.
MaxIntDigits ==
    << "9", "2", "2", "3", "3", "7", "2", "0", "3", "6", "8", "5", "4", "7",
       "7", "5", "8", "0", "7" >>

RECURSIVE DigitsValue(_)
DigitsValue(ds) ==
    IF Len(ds) = 0 THEN 0
    ELSE 10 * DigitsValue(SubSeq(ds, 1, Len(ds) - 1)) + (Ord(ds[Len(ds)]) - Ord("0"))

\* strconv.Atoi on a string of digits: the value, or an error when the value
\* does not fit an int. Leading zeros do not count.
Atoi(ds) ==
    LET z == Run(ds, 1, {"0"})
        t == Sub(ds, z + 1, Len(ds) + 1)
    IN IF Len(t) > Len(MaxIntDigits)
          \/ (Len(t) = Len(MaxIntDigits) /\ StrLess(MaxIntDigits, t))
       THEN [ok |-> FALSE, n |-> 0]
       ELSE [ok |-> TRUE, n |-> DigitsValue(t)]

----------------------------------------------------------------------------
(* package semver *)

\* Whether i is just past the end of s: the $ of the expressions.
AtEnd(s, i) == i = Len(s) + 1

\* Whether the ten characters of s from i on are \d\d\d\d-\d\d-\d\d.
IsDate(s, i) ==
    /\ i + 9 <= Len(s)
    /\ \A k \in {0, 1, 2, 3, 5, 6, 8, 9} : s[i + k] \in Digit
    /\ s[i + 4] = "-"
    /\ s[i + 7] = "-"

\* Whether the text from i on matches the end of changesVersionRE:
\*   ( *)(\d\d\d\d-\d\d-\d\d)? *$
HeadingTail(s, i) ==
    LET j == i + Run(s, i, {" "})
    IN \/ AtEnd(s, j)
       \/ IsDate(s, j) /\ AtEnd(s, j + 10 + Run(s, j + 10, {" "}))

\* What must follow the version: the end of the text for versionRE and
\* styleRE, the rest of changesVersionRE for a heading.
TailOk(s, i, heading) == IF heading THEN HeadingTail(s, i) ELSE AtEnd(s, i)

\* The ways the text from index `from` on can match
\*   (\w*-|v)? \d+ \. \d+ (\.\d+)? (-\w+)?
\* followed by a rest that TailOk accepts. pk is the alternative taken for the
\* optional prefix (0: \w*-, 1: v, 2: none), mj, mn the lengths of the major and
\* minor digits, pl the length of the patch digits (0: group absent) and fl the
\* length of the flavor word (0: group absent).
VersionMatches(s, from, heading) ==
    LET start(pk) ==
            IF pk = 0
            THEN (LET w == Run(s, from, WordCh)
                  IN IF At(s, from + w, "-") THEN from + w + 1 ELSE 0)
            ELSE IF pk = 1
            THEN (IF At(s, from, "v") THEN from + 1 ELSE 0)
            ELSE from
        after(p, mj, mn, pl) == p + mj + 1 + mn + (IF pl = 0 THEN 0 ELSE pl + 1)
        stop(p, mj, mn, pl, fl) == after(p, mj, mn, pl) + (IF fl = 0 THEN 0 ELSE fl + 1)
    IN UNION { LET p == start(pk)
                   mj == Run(s, p, Digit)
               IN IF p = 0 \/ mj = 0 \/ ~At(s, p + mj, ".") THEN {}
                  ELSE UNION { UNION { { [pk |-> pk, p |-> p, mj |-> mj, mn |-> mn, pl |-> pl,
                                          fl |-> fl, stop |-> stop(p, mj, mn, pl, fl)] :
                                         fl \in { f \in 0..Run(s, after(p, mj, mn, pl) + 1, WordCh) :
                                                    /\ f > 0 => At(s, after(p, mj, mn, pl), "-")
                                                    /\ TailOk(s, stop(p, mj, mn, pl, f), heading) } } :
                                       pl \in { l \in 0..Run(s, p + mj + 1 + mn + 1, Digit) :
                                                  l > 0 => At(s, p + mj + 1 + mn, ".") } } :
                               mn \in 1..Run(s, p + mj + 1, Digit) } :
               pk \in 0..2 }

\* The match the regexp engine reports: alternatives in the order written, and
\* every repetition as long as the rest of the match allows (leftmost-first).
Preferred(ms) ==
    LET better(a, b) ==
            \/ a.pk < b.pk
            \/ a.pk = b.pk /\ a.mn > b.mn
            \/ a.pk = b.pk /\ a.mn = b.mn /\ a.pl > b.pl
            \/ a.pk = b.pk /\ a.mn = b.mn /\ a.pl = b.pl /\ a.fl > b.fl
    IN CHOOSE m \in ms : \A o \in ms : o = m \/ better(m, o)

\* The submatches of a match m in s: the prefix, the major, minor and patch
\* digits, the flavor group (with its dash) and the whole version token.
Groups(s, from, m) ==
    LET q == m.p + m.mj + 1
        r == q + m.mn
        a == r + (IF m.pl = 0 THEN 0 ELSE m.pl + 1)
    IN [ prefix |-> Sub(s, from, m.p),
         major |-> Sub(s, m.p, m.p + m.mj),
         minor |-> Sub(s, q, r),
         patch |-> IF m.pl = 0 THEN << >> ELSE Sub(s, r + 1, a),
         flavor |-> IF m.fl = 0 THEN << >> ELSE Sub(s, a, m.stop),
         token |-> Sub(s, from, m.stop),
         stop |-> m.stop ]

\* The result of FindStringSubmatch given the ways ms the expression can
\* match: ok = FALSE when there is none, else the submatches of the match the
\* engine reports.
Submatch(s, from, ms) ==
    IF ms = {} THEN [ok |-> FALSE] ELSE [ok |-> TRUE, m |-> Groups(s, from, Preferred(ms))]

\* versionRE / styleRE .FindStringSubmatch(s): the two expressions differ only
\* in capturing the prefix.
FindVersion(s) == Submatch(s, 1, VersionMatches(s, 1, FALSE))

NoStyle == [Prefix |-> << >>, OmitPatch |-> FALSE]

\* The Style that ParseStyle builds from the submatches f.
StyleOf(f) ==
    IF ~f.ok THEN [ok |-> FALSE, style |-> NoStyle]
    ELSE [ok |-> TRUE, style |-> [Prefix |-> f.m.prefix, OmitPatch |-> f.m.patch = << >>]]

\* ParseStyle(s): ok = FALSE stands for the nil result.
ParseStyle(s) == StyleOf(FindVersion(s))

\* A Format that writes the patch digit whatever the style says.
FormatAlwaysPatch(style, v) ==
    style.Prefix \o Itoa(v.Major) \o <<".">> \o Itoa(v.Minor) \o <<".">> \o Itoa(v.Patch)
        \o (IF v.Flavor # << >> THEN <<"-">> \o v.Flavor ELSE << >>)

\* Style.Format(v)
Format(style, v) ==
    style.Prefix \o Itoa(v.Major) \o <<".">> \o Itoa(v.Minor)
        \o (IF v.Patch # 0 \/ ~style.OmitPatch THEN <<".">> \o Itoa(v.Patch) ELSE << >>)
        \o (IF v.Flavor # << >> THEN <<"-">> \o v.Flavor ELSE << >>)

ZeroVersion == [Major |-> 0, Minor |-> 0, Patch |-> 0, Flavor |-> << >>]

\* Version.String()
VersionString(v) == Format(NoStyle, v)

\* The Version that Parse builds from the numbers mj, mn, pt that strconv.Atoi
\* made of the submatches, and from the flavor submatch.
VersionOf(mj, mn, pt, flavor) ==
    IF ~mj.ok \/ ~mn.ok \/ ~pt.ok THEN [ok |-> FALSE, v |-> ZeroVersion]
    ELSE [ok |-> TRUE,
          v |-> [Major |-> mj.n, Minor |-> mn.n, Patch |-> pt.n,
                 Flavor |-> IF Len(flavor) > 0 THEN Tail(flavor) ELSE << >>]]

\* What Parse does with the submatches f.
ParseSubmatch(f) ==
    IF ~f.ok THEN [ok |-> FALSE, v |-> ZeroVersion]
    ELSE VersionOf(Atoi(f.m.major), Atoi(f.m.minor),
                   IF f.m.patch # << >> THEN Atoi(f.m.patch) ELSE [ok |-> TRUE, n |-> 0],
                   f.m.flavor)

\* Parse(s): ok = FALSE stands for the error result.
Parse(s) == ParseSubmatch(FindVersion(s))

\* Compare(a, b, compareFlavor)
Compare(a, b, compareFlavor) ==
    IF a.Major < b.Major THEN -1
    ELSE IF a.Major > b.Major THEN 1
    ELSE IF a.Minor < b.Minor THEN -1
    ELSE IF a.Minor > b.Minor THEN 1
    ELSE IF a.Patch < b.Patch THEN -1
    ELSE IF a.Patch > b.Patch THEN 1
    ELSE IF compareFlavor
         THEN (IF a.Flavor = << >> /\ b.Flavor # << >> THEN -1
               ELSE IF a.Flavor # << >> /\ b.Flavor = << >> THEN 1
               ELSE IF StrLess(a.Flavor, b.Flavor) THEN -1
               ELSE IF StrLess(b.Flavor, a.Flavor) THEN 1
               ELSE 0)
         ELSE 0

\* A comparison that looks at the major numbers only.
GreaterByMajor(v, o, compareFlavor) == v.Major > o.Major

\* Version.GreaterThan(o, compareFlavor)
GreaterThan(v, o, compareFlavor) == Compare(v, o, compareFlavor) > 0

\* Version.GreaterEqualTo(o, compareFlavor)
GreaterEqualTo(v, o, compareFlavor) == Compare(v, o, compareFlavor) >= 0

----------------------------------------------------------------------------
(* package changes *)

\* Where the version token of a heading starts: after (#* *).
HeadingStart(line) == 1 + Run(line, 1, {"#"}) + Run(line, 1 + Run(line, 1, {"#"}), {" "})

\* The submatches of changesVersionRE given those of the version token, f, and
\* the index j of what follows the separator.
HeadingGroups(line, from, f, j) ==
    [ok |-> TRUE,
     prefix |-> Sub(line, 1, from),
     token |-> f.m.token,
     sep |-> Sub(line, f.m.stop, j),
     date |-> IF AtEnd(line, j) THEN << >> ELSE Sub(line, j, j + 10)]

HeadingSubmatch(line, from, f) ==
    IF ~f.ok THEN [ok |-> FALSE]
    ELSE HeadingGroups(line, from, f, f.m.stop + Run(line, f.m.stop, {" "}))

FindHeadingFrom(line, from) ==
    HeadingSubmatch(line, from, Submatch(line, from, VersionMatches(line, from, TRUE)))

\* changesVersionRE.FindStringSubmatch(line): ok = FALSE when the line is no
\* heading; else the marker/indent, the version token, the separator, the date.
FindHeading(line) == FindHeadingFrom(line, HeadingStart(line))

\* A Split that, like a line scanner, yields no last line for a text that ends
\* with a newline.
RECURSIVE SplitDroppingLastEmpty(_)
SplitDroppingLastEmpty(body) ==
    IF Len(body) = 0 THEN << >>
    ELSE IF \A i \in 1..Len(body) : body[i] # "\n" THEN << body >>
    ELSE LET k == CHOOSE i \in 1..Len(body) :
                      body[i] = "\n" /\ \A j \in 1..(i - 1) : body[j] # "\n"
         IN << Sub(body, 1, k) >> \o SplitDroppingLastEmpty(Sub(body, k + 1, Len(body) + 1))

\* strings.Split(body, "\n")
RECURSIVE Split(_)
Split(body) ==
    IF \A i \in 1..Len(body) : body[i] # "\n" THEN << body >>
    ELSE LET k == CHOOSE i \in 1..Len(body) :
                      body[i] = "\n" /\ \A j \in 1..(i - 1) : body[j] # "\n"
         IN << Sub(body, 1, k) >> \o Split(Sub(body, k + 1, Len(body) + 1))

\* The version entry that Content.parse builds for the heading m found on the
\* line numbered n (1-based), whose version token parsed to v.
Entry(m, n, v) ==
    [ Version |-> v,
      line |-> n,
      prefix |-> m.prefix,
      style |-> ParseStyle(m.token).style,
      sep |-> m.sep,
      date |-> m.date ]

\* What one pass of the loop of Content.parse does with the heading m found on
\* line n, whose version token semver.Parse turned into p: an error, or an entry.
ParsedHeading(m, n, p) ==
    IF ~p.ok THEN [kind |-> "error"] ELSE [kind |-> "entry", entry |-> Entry(m, n, p.v)]

\* One pass of the loop of Content.parse given the submatches m for line n.
ParsedLine(m, n) ==
    IF ~m.ok THEN [kind |-> "none"] ELSE ParsedHeading(m, n, Parse(m.token))

\* Content.parse from line i on, appending to the entries acc: the entries, or
\* the error of the first heading whose numbers semver.Parse rejects (with the
\* entries appended before it).
RECURSIVE ParseLines(_, _, _)
ParseLines(ls, i, acc) ==
    IF i > Len(ls) THEN [ok |-> TRUE, versions |-> acc]
    ELSE LET r == ParsedLine(FindHeading(ls[i]), i)
         IN IF r.kind = "none" THEN ParseLines(ls, i + 1, acc)
            ELSE IF r.kind = "error" THEN [ok |-> FALSE, versions |-> acc]
            ELSE ParseLines(ls, i + 1, Append(acc, r.entry))

\* Content.parse on a Content whose versions are empty
ContentParse(ls) == ParseLines(ls, 1, << >>)

\* The result of Read given the lines of the body and what Content.parse made
\* of them.
ReadResult(ls, r) ==
    IF r.ok THEN [ok |-> TRUE, lines |-> ls, versions |-> r.versions]
    ELSE [ok |-> FALSE, lines |-> << >>, versions |-> << >>]

\* Read on the lines of a body.
ReadLines(ls) == ReadResult(ls, ContentParse(ls))

\* Read(body): ok = FALSE stands for the (nil, err) result.
Read(body) == ReadLines(Split(body))

\* Content.String()
ContentString(ls) == Join(ls, <<"\n">>)

\* A heading line written without the separator of the entry.
EntryStringSansSep(e) == e.prefix \o Format(e.style, e.Version) \o e.date

\* version.String(): the heading line of an entry
EntryString(e) == e.prefix \o Format(e.style, e.Version) \o e.sep \o e.date

\* time.Time values: the zero time, or a day given by its yyyy-mm-dd text.
ZeroTime == << >>

\* t.Format("2006-01-02")
TimeFormat(t) ==
    IF t = ZeroTime
    THEN << "0", "0", "0", "1", "-", "0", "1", "-", "0", "1" >>
    ELSE t

TwoSpaces == << " ", " " >>

\* A rewrite of the first entry that leaves an empty separator empty.
AdjustedEntryKeepingSep(e, v, t) ==
    [e EXCEPT !.Version = v, !.date = TimeFormat(t)]

\* The first entry as Content.AdjustCurrentVersion(v, t) rewrites it.
AdjustedEntry(e, v, t) ==
    [e EXCEPT !.Version = v,
              !.date = TimeFormat(t),
              !.sep = IF e.sep = << >> THEN TwoSpaces ELSE e.sep]

\* A new heading that adopts nothing from the existing first entry.
NewHeadingUnstyled(vs, v, t) ==
    [ Version |-> v, line |-> 0, prefix |-> << >>, style |-> NoStyle,
      sep |-> IF t # ZeroTime THEN TwoSpaces ELSE << >>,
      date |-> IF t # ZeroTime THEN TimeFormat(t) ELSE << >> ]

\* The heading that Content.AddNewVersion(v, t, content) inserts, given the
\* entries vs of the Content.
NewHeading(vs, v, t) ==
    LET h == [ Version |-> v, line |-> 0, prefix |-> << >>, style |-> NoStyle,
               sep |-> IF t # ZeroTime THEN TwoSpaces ELSE << >>,
               date |-> IF t # ZeroTime THEN TimeFormat(t) ELSE << >> ]
    IN IF Len(vs) > 0
       THEN [h EXCEPT !.prefix = vs[1].prefix, !.style = vs[1].style, !.sep = vs[1].sep]
       ELSE h

\* An AddNewVersion that puts the new entry below the whole document.
NewVersionLinesAtEnd(ls, vs, v, t, content) ==
    ls \o << << >>, EntryString(NewHeading(vs, v, t)), << >> >>
       \o (IF content # << >> THEN Split(content) \o << << >> >> ELSE << >>)

\* The lines of the Content after Content.AddNewVersion(v, t, content).
NewVersionLines(ls, vs, v, t, content) ==
    LET at == IF Len(vs) > 0 THEN vs[1].line - 1 ELSE Len(ls)
        head == SubSeq(ls, 1, at)
        padded == IF Len(head) = 0 \/ head[Len(head)] # << >>
                  THEN Append(head, << >>) ELSE head
    IN padded \o << EntryString(NewHeading(vs, v, t)), << >> >>
              \o (IF content # << >> THEN Split(content) \o << << >> >> ELSE << >>)
              \o SubSeq(ls, at + 1, Len(ls))

\* The errors of Content.Validate, as records: the kind of finding, and the
\* versions and line numbers its message cites.
NoVersionsFinding == [kind |-> "NoVersions"]
TopNotFlavoredFinding(e) == [kind |-> "TopNotFlavored", v |-> e.Version, line |-> e.line]
FlavoredFinding(e) == [kind |-> "Flavored", v |-> e.Version, line |-> e.line]
NotGreaterFinding(next, curr) ==
    [kind |-> "NotGreater", v |-> next.Version, line |-> next.line,
     v2 |-> curr.Version, line2 |-> curr.line]

\* A loop body that compares the pair the wrong way round.
ValidatePairSwapped(next, curr) ==
    (IF curr.Version.Flavor # << >> THEN << FlavoredFinding(curr) >> ELSE << >>)
    \o (IF ~GreaterThan(curr.Version, next.Version, FALSE)
        THEN << NotGreaterFinding(next, curr) >> ELSE << >>)

\* A loop body that tests the flavor of the upper entry of the pair.
ValidatePairFlavorOfNext(next, curr) ==
    (IF next.Version.Flavor # << >> THEN << FlavoredFinding(next) >> ELSE << >>)
    \o (IF ~GreaterThan(next.Version, curr.Version, FALSE)
        THEN << NotGreaterFinding(next, curr) >> ELSE << >>)

\* The body of the loop of Content.Validate for curr = vs[k], next = vs[k - 1].
ValidatePair(next, curr) ==
    (IF curr.Version.Flavor # << >> THEN << FlavoredFinding(curr) >> ELSE << >>)
    \o (IF ~GreaterThan(next.Version, curr.Version, FALSE)
        THEN << NotGreaterFinding(next, curr) >> ELSE << >>)

\* A loop that collects the findings of the last pair first.
RECURSIVE ValidateLoopBottomUp(_, _)
ValidateLoopBottomUp(vs, k) ==
    IF k > Len(vs) THEN << >>
    ELSE ValidateLoopBottomUp(vs, k + 1) \o ValidatePair(vs[k - 1], vs[k])

RECURSIVE ValidateLoop(_, _)
ValidateLoop(vs, k) ==
    IF k > Len(vs) THEN << >>
    ELSE ValidatePair(vs[k - 1], vs[k]) \o ValidateLoop(vs, k + 1)

\* A Validate that applies the development-branch rule to every branch.
ValidateAnyBranch(vs, isDevelopmentBranch) ==
    IF Len(vs) = 0 THEN << NoVersionsFinding >>
    ELSE (IF vs[1].Version.Flavor = << >>
          THEN << TopNotFlavoredFinding(vs[1]) >> ELSE << >>)
         \o ValidateLoop(vs, 2)

\* Content.Validate(isDevelopmentBranch) on the entries vs
Validate(vs, isDevelopmentBranch) ==
    IF Len(vs) = 0 THEN << NoVersionsFinding >>
    ELSE (IF isDevelopmentBranch /\ vs[1].Version.Flavor = << >>
          THEN << TopNotFlavoredFinding(vs[1]) >> ELSE << >>)
         \o ValidateLoop(vs, 2)

\* The white space of the model's characters, as unicode.IsSpace has it.
Space == {"\n", " "}

\* strings.TrimSpace(line) == ""
IsBlank(line) == \A i \in 1..Len(line) : line[i] \in Space

\* The first loop over blank lines of Content.ReleaseNotes: startLine, a
\* 0-based index into the lines ls, moves past the blank lines.
RECURSIVE SkipBlank(_, _)
SkipBlank(ls, startLine) ==
    IF startLine < Len(ls) /\ IsBlank(ls[startLine + 1])
    THEN SkipBlank(ls, startLine + 1)
    ELSE startLine

\* A second loop that leaves the blank lines at the end where they are.
KeepBlank(ls, startLine, endLine) == endLine

\* The second loop over blank lines of Content.ReleaseNotes: endLine, a
\* 0-based exclusive index, moves back over the blank lines.
RECURSIVE DropBlank(_, _, _)
DropBlank(ls, startLine, endLine) ==
    IF endLine > startLine /\ IsBlank(ls[endLine])
    THEN DropBlank(ls, startLine, endLine - 1)
    ELSE endLine

\* strings.Join(c.lines[startLine:endLine], "\n"), true: the slice expression
\* panics unless startLine <= endLine <= len(c.lines).
NotesSlice(ls, startLine, endLine) ==
    IF startLine <= endLine /\ endLine <= Len(ls)
    THEN [found |-> TRUE, panics |-> FALSE, startLine |-> startLine, endLine |-> endLine,
          notes |-> Join(SubSeq(ls, startLine + 1, endLine), <<"\n">>)]
    ELSE [found |-> FALSE, panics |-> TRUE, startLine |-> startLine, endLine |-> endLine,
          notes |-> << >>]

\* Content.ReleaseNotes once its first loop has found the heading: startLine
\* is past the leading blank lines, endLine is -1 when no heading follows.
NotesFrom(ls, startLine, endLine) ==
    NotesSlice(ls, startLine,
               DropBlank(ls, startLine, IF endLine = -1 THEN Len(ls) ELSE endLine))

\* The index of the first entry of vs whose version is v, 0 when there is none.
FirstEntry(vs, v) ==
    IF \E i \in 1..Len(vs) : vs[i].Version = v
    THEN CHOOSE i \in 1..Len(vs) :
             vs[i].Version = v /\ \A j \in 1..(i - 1) : vs[j].Version # v
    ELSE 0

\* Content.ReleaseNotes given the index i of the first entry for the version.
NotesOfEntry(ls, vs, i) ==
    IF i = 0
    THEN [found |-> FALSE, panics |-> FALSE, startLine |-> -1, endLine |-> -1,
          notes |-> << >>]
    ELSE NotesFrom(ls, SkipBlank(ls, vs[i].line),
                   IF i < Len(vs) THEN vs[i + 1].line - 1 ELSE -1)

\* Content.ReleaseNotes(v) on the lines ls and entries vs
ReleaseNotes(ls, vs, v) == NotesOfEntry(ls, vs, FirstEntry(vs, v))

\* The body of Content.CurrentVersionNotes for 1-based from and to.
NotesFromTo(ls, from, to) ==
    IF from < to THEN Join(SubSeq(ls, from, to - 1), <<"\n">>) ELSE << >>

\* Content.CurrentVersionNotes() on the lines ls and entries vs
CurrentVersionNotes(ls, vs) ==
    IF Len(vs) > 0
    THEN NotesFromTo(ls, vs[1].line + 1, IF Len(vs) > 1 THEN vs[2].line ELSE Len(ls))
    ELSE << >>

\* List.Sort(): the most recent version first, flavors compared. The list is
\* built by inserting each version before the first one it is greater than.
RECURSIVE SortList(_)
SortList(l) ==
    IF Len(l) = 0 THEN << >>
    ELSE LET rest == SortList(Tail(l))
             n == Cardinality({ i \in 1..Len(rest) : ~GreaterThan(l[1], rest[i], TRUE) })
         IN SubSeq(rest, 1, n) \o << l[1] >> \o SubSeq(rest, n + 1, Len(rest))

\* List.Set()
ListSet(l) == { l[i] : i \in 1..Len(l) }

\* Set.List(): the versions of the set, sorted.
RECURSIVE SetList(_)
SetList(set) ==
    IF set = {} THEN << >>
    ELSE LET top == CHOOSE v \in set : \A o \in set : o = v \/ GreaterThan(v, o, TRUE)
         IN << top >> \o SetList(set \ {top})

\* Set.Union(o): despite its name, the versions of s that are also in o.
SetUnion(set, o) == { v \in o : v \in set }

\* A Versions() that leaves the versions in the order of the entries.
VersionsAsDeclared(vs) == [i \in 1..Len(vs) |-> vs[i].Version]

\* Content.Versions() on the entries vs
Versions(vs) == SortList([i \in 1..Len(vs) |-> vs[i].Version])

----------------------------------------------------------------------------
(* Inputs and bounds *)

\* The longest text handed to Read, in lines.
MaxLines == 3

\* The number of mutating calls made on one Content.
MaxCalls == 2

V(major, minor, patch, flavor) ==
    [Major |-> major, Minor |-> minor, Patch |-> patch, Flavor |-> flavor]

\* The lines the texts are made of: a blank line, a line of notes, and
\* headings with and without marker, prefix, patch digit, flavor and date;
\* the last one holds a number that does not fit an int.
SampleLines ==
    { << >>,
      << "x" >>,
      << "1", ".", "1", "-", "d" >>,
      << "#", " ", "1", ".", "0", ".", "0", " ", "2", "0", "2", "0", "-", "0", "1", "-", "0", "1" >>,
      << "v", "1", ".", "1" >>,
      << "9", "9", "9", "9", "9", "9", "9", "9", "9", "9",
         "9", "9", "9", "9", "9", "9", "9", "9", "9", "9", ".", "0" >> }

Texts ==
    { Join(ls, <<"\n">>) : ls \in UNION { [1..n -> SampleLines] : n \in 1..MaxLines } }

\* The versions, times and release notes handed to the mutating calls.
CallVersions == { V(1, 1, 1, << >>), V(1, 2, 0, << "d" >>) }
CallTimes == { ZeroTime, << "2", "0", "2", "0", "-", "0", "6", "-", "1", "6" >> }
CallContents == { << >>, << "x" >> }

\* The longest text whose release notes are asked for, in lines.
MaxNoteLines == 4

\* The lines of those texts: an empty line, a line of white space, a line of
\* notes, and two headings.
NoteLines ==
    { << >>,
      << " " >>,
      << "x" >>,
      << "1", ".", "1", "-", "d" >>,
      << "#", " ", "1", ".", "0", ".", "0", " ", "2", "0", "2", "0", "-", "0", "1", "-", "0", "1" >> }

NoteTexts ==
    { Join(ls, <<"\n">>) : ls \in UNION { [1..n -> NoteLines] : n \in 1..MaxNoteLines } }

\* The versions whose notes are asked for: the two of the headings, the
\* flavored one without its flavor, and one that no heading declares.
NoteVersions ==
    { V(1, 0, 0, << >>), V(1, 1, 0, << "d" >>), V(1, 1, 0, << >>), V(2, 0, 0, << >>) }

Idle == [op |-> "idle"]

\* Each part of the program is exercised on its own; the variables of the
\* other parts then keep these values.
SemverIdle == semIn = Idle /\ semOut = Idle

ChangesIdle ==
    /\ text = << >> /\ readOk = FALSE /\ lines = << >> /\ versions = << >>
    /\ docOut = Idle /\ calls = 0

RepoIdle == repo = Idle

ScanIdle == scan = Idle

PkgIdle == pkg = Idle

RelIdle == rel = Idle

----------------------------------------------------------------------------
(* The Content of a CHANGES file: Read, then calls on it *)

\* The Content c that Read made of the text t.
Loaded(t, c) ==
    /\ text = t
    /\ readOk = c.ok
    /\ lines = c.lines
    /\ versions = c.versions
    /\ docOut = [op |-> "Read"]
    /\ calls = 0

ChangesInit ==
    /\ \E t \in Texts : Loaded(t, Read(t))
    /\ SemverIdle /\ RepoIdle /\ ScanIdle /\ PkgIdle /\ RelIdle

\* A Content exists and its last AddNewVersion, if any, returned no error.
Usable == readOk /\ ~(docOut.op = "AddNewVersion" /\ docOut.err)

AdjustCurrentVersion(v, t) ==
    /\ Usable
    /\ calls < MaxCalls
    /\ calls' = calls + 1
    /\ IF Len(versions) = 0
       THEN /\ docOut' = [op |-> "AdjustCurrentVersion", v |-> v, t |-> t, ret |-> FALSE]
            /\ UNCHANGED <<lines, versions>>
       ELSE LET cv == AdjustedEntry(versions[1], v, t)
            IN /\ versions' = [versions EXCEPT ![1] = cv]
               /\ lines' = [lines EXCEPT ![cv.line] = EntryString(cv)]
               /\ docOut' = [op |-> "AdjustCurrentVersion", v |-> v, t |-> t, ret |-> TRUE]
    /\ UNCHANGED <<text, readOk, semVars, repoVars, scanVars, pkg, rel>>

\* The end of Content.AddNewVersion: the new lines ls are stored and parsed
\* again, r being what Content.parse made of them.
Reparsed(v, t, content, ls, r) ==
    /\ lines' = ls
    /\ versions' = r.versions
    /\ docOut' = [op |-> "AddNewVersion", v |-> v, t |-> t, content |-> content,
                  err |-> ~r.ok]

StoredLines(v, t, content, ls) == Reparsed(v, t, content, ls, ContentParse(ls))

AddNewVersion(v, t, content) ==
    /\ Usable
    /\ calls < MaxCalls
    /\ calls' = calls + 1
    /\ StoredLines(v, t, content, NewVersionLines(lines, versions, v, t, content))
    /\ UNCHANGED <<text, readOk, semVars, repoVars, scanVars, pkg, rel>>

ValidateCall(isDevelopmentBranch) ==
    /\ Usable
    /\ docOut' = [op |-> "Validate", isDev |-> isDevelopmentBranch,
                  errs |-> Validate(versions, isDevelopmentBranch)]
    /\ UNCHANGED <<text, readOk, lines, versions, calls, semVars, repoVars, scanVars, pkg, rel>>

ChangesNext ==
    \/ \E v \in CallVersions, t \in CallTimes : AdjustCurrentVersion(v, t)
    \/ \E v \in CallVersions, t \in CallTimes, content \in CallContents :
           AddNewVersion(v, t, content)
    \/ \E isDev \in BOOLEAN : ValidateCall(isDev)

\* Content.Versions() called on the Content as it was read.
VersionsCall ==
    /\ Usable
    /\ docOut.op = "Read"
    /\ docOut' = [op |-> "Versions", out |-> Versions(versions)]
    /\ UNCHANGED <<text, readOk, lines, versions, calls, semVars, repoVars, scanVars, pkg, rel>>

NotesInit ==
    /\ \E t \in NoteTexts : Loaded(t, Read(t))
    /\ SemverIdle /\ RepoIdle /\ ScanIdle /\ PkgIdle /\ RelIdle

\* The outcome r of Content.ReleaseNotes(v)
NotesReturned(v, r) ==
    docOut' = [op |-> "ReleaseNotes", v |-> v, found |-> r.found, panics |-> r.panics,
               startLine |-> r.startLine, endLine |-> r.endLine, notes |-> r.notes]

ReleaseNotesCall(v) ==
    /\ Usable
    /\ NotesReturned(v, ReleaseNotes(lines, versions, v))
    /\ UNCHANGED <<text, readOk, lines, versions, calls, semVars, repoVars, scanVars, pkg, rel>>

CurrentVersionNotesCall ==
    /\ Usable
    /\ docOut' = [op |-> "CurrentVersionNotes",
                  notes |-> CurrentVersionNotes(lines, versions)]
    /\ UNCHANGED <<text, readOk, lines, versions, calls, semVars, repoVars, scanVars, pkg, rel>>

NotesNext ==
    \/ \E v \in NoteVersions : ReleaseNotesCall(v)
    \/ CurrentVersionNotesCall

----------------------------------------------------------------------------
(* The semver functions, called on bounded inputs *)

\* The longest run of digits in a generated version string.
MaxDigits == 2

\* The largest number in a compared version.
MaxNumber == 1

\* The strings of 1..n characters over cs.
Words(cs, n) ==
    UNION { { [i \in 1..k |-> f[i]] : f \in [1..k -> cs] } : k \in 1..n }

Numerals == Words({"0", "1"}, MaxDigits)

TooBig ==
    << "9", "9", "9", "9", "9", "9", "9", "9", "9", "9",
       "9", "9", "9", "9", "9", "9", "9", "9", "9", "9" >>

\* Version strings: every combination of prefix, major, minor, optional patch
\* and optional flavor; the example "v2.3-dev"; a number that does not fit an
\* int; and strings outside the grammar.
VersionStrings ==
    { pre \o mj \o <<".">> \o mn \o pt \o fl :
        pre \in { << >>, << "v" >>, << "r", "-" >> },
        mj \in Numerals,
        mn \in Numerals,
        pt \in { << >> } \cup { <<".">> \o n : n \in Numerals },
        fl \in { << >>, << "-", "d" >> } }
    \cup { << "v", "2", ".", "3", "-", "d", "e", "v" >>,
           TooBig \o << ".", "0" >>,
           << "1" >>,
           << "1", ".", "1", "." >>,
           << "a", "-", "b", "-", "1", ".", "1" >>,
           << "1", ".", "1", "-" >> }

CompareVersions ==
    { V(a, b, c, f) : a \in 0..MaxNumber, b \in 0..MaxNumber, c \in 0..MaxNumber,
                      f \in { << >>, << "d" >>, << "r", "c" >> } }

\* The calls to make: the function and its arguments.
SemverCalls ==
    { [op |-> "Parse", s |-> s] : s \in VersionStrings }
    \cup { [op |-> "ParseStyle", s |-> s] : s \in VersionStrings }
    \cup { [op |-> "FormatParsed", s |-> s] : s \in VersionStrings }
    \cup { [op |-> "Compare", a |-> a, b |-> b, compareFlavor |-> cf] :
             a \in CompareVersions, b \in CompareVersions, cf \in BOOLEAN }

SemverInit ==
    /\ semIn \in SemverCalls
    /\ semOut = Idle
    /\ ChangesIdle /\ RepoIdle /\ ScanIdle /\ PkgIdle /\ RelIdle

ParseCall ==
    /\ semOut = Idle
    /\ semIn.op = "Parse"
    /\ semOut' = Parse(semIn.s)
    /\ UNCHANGED <<semIn, docVars, repoVars, scanVars, pkg, rel>>

ParseStyleCall ==
    /\ semOut = Idle
    /\ semIn.op = "ParseStyle"
    /\ semOut' = ParseStyle(semIn.s)
    /\ UNCHANGED <<semIn, docVars, repoVars, scanVars, pkg, rel>>

\* ParseStyle(s).Format(Parse(s)) when both accept s
FormatParsedCall ==
    /\ semOut = Idle
    /\ semIn.op = "FormatParsed"
    /\ Parse(semIn.s).ok
    /\ ParseStyle(semIn.s).ok
    /\ semOut' = [v |-> Parse(semIn.s).v, style |-> ParseStyle(semIn.s).style,
                  out |-> Format(ParseStyle(semIn.s).style, Parse(semIn.s).v)]
    /\ UNCHANGED <<semIn, docVars, repoVars, scanVars, pkg, rel>>

CompareCall ==
    /\ semOut = Idle
    /\ semIn.op = "Compare"
    /\ semOut' = [ret |-> Compare(semIn.a, semIn.b, semIn.compareFlavor)]
    /\ UNCHANGED <<semIn, docVars, repoVars, scanVars, pkg, rel>>

SemverNext == ParseCall \/ ParseStyleCall \/ FormatParsedCall \/ CompareCall

----------------------------------------------------------------------------
(* main: the repo, its version style and what it misses *)

\* Whether the text from i on is one or more x.
IsXs(s, i) == i <= Len(s) /\ Run(s, i, {"x"}) = Len(s) - i + 1

\* parseReleaseBranch(s): the major version of a release branch name, matched
\* by ^(?:\w*-|v)?(\d+)\.x+(?:\.x+)?$; ok = FALSE stands for nil.
ParseReleaseBranch(s) ==
    LET start(pk) ==
            IF pk = 0
            THEN (LET w == Run(s, 1, WordCh)
                  IN IF At(s, 1 + w, "-") THEN w + 2 ELSE 0)
            ELSE IF pk = 1 THEN (IF At(s, 1, "v") THEN 2 ELSE 0)
            ELSE 1
        matches(p) ==
            LET d == Run(s, p, Digit)
                x == Run(s, p + d + 1, {"x"})
            IN /\ p > 0 /\ d > 0 /\ At(s, p + d, ".") /\ x > 0
               /\ \/ AtEnd(s, p + d + 1 + x)
                  \/ At(s, p + d + 1 + x, ".") /\ IsXs(s, p + d + 1 + x + 1)
        pks == { pk \in 0..2 : matches(start(pk)) }
    IN IF pks = {} THEN [ok |-> FALSE, major |-> 0]
       ELSE LET p == start(CHOOSE pk \in pks : \A o \in pks : pk <= o)
                n == Atoi(Sub(s, p, p + Run(s, p, Digit)))
            IN IF n.ok THEN [ok |-> TRUE, major |-> n.n] ELSE [ok |-> FALSE, major |-> 0]

\* repo.branchNameForVersion(v)
BranchNameForVersion(style, v) ==
    IF style.OmitPatch
    THEN style.Prefix \o Itoa(v.Major) \o << ".", "x" >>
    ELSE style.Prefix \o Itoa(v.Major) \o << ".", "x", ".", "x" >>

\* repo.tagNameForVersion(v)
TagNameForVersion(style, v) == Format(style, v)

\* repo.releaseNameForVersion(v)
ReleaseNameForVersion(style, v) == Format(style, v)

\* The names that determineVersionStyle looks at, one element per branch, tag
\* and release (a name used by a tag and a release counts twice).
StyledNames(r) ==
    { <<"branch", n>> : n \in DOMAIN r.branches }
    \cup { <<"tag", n>> : n \in r.tags }
    \cup { <<"release", n>> : n \in r.releases }

\* prefixUses of determineVersionStyle
PrefixUses(r) ==
    LET parsed == { e \in StyledNames(r) : ParseStyle(e[2]).ok }
        prefixes == { ParseStyle(e[2]).style.Prefix : e \in parsed }
    IN [ p \in prefixes |->
           Cardinality({ e \in parsed : ParseStyle(e[2]).style.Prefix = p }) ]

\* A usesPatch that one name with a patch digit is enough to set.
UsesPatchIfAny(r) ==
    \E e \in StyledNames(r) : ParseStyle(e[2]).ok /\ ~ParseStyle(e[2]).style.OmitPatch

\* usesPatch of determineVersionStyle
UsesPatch(r) ==
    \A e \in StyledNames(r) : ParseStyle(e[2]).ok => ~ParseStyle(e[2]).style.OmitPatch

DefaultPrefix == << "r", "e", "l", "e", "a", "s", "e", "-" >>

\* A loop that settles on the first prefix it visits.
FirstPrefix(uses, ps, prefix, n) == IF Len(ps) = 0 THEN prefix ELSE ps[1]

\* The loop of determineVersionStyle over prefixUses, visited in the order ps:
\* the prefix it ends with.
RECURSIVE MostCommonPrefix(_, _, _, _)
MostCommonPrefix(uses, ps, prefix, n) ==
    IF Len(ps) = 0 THEN prefix
    ELSE IF uses[ps[1]] >= n
         THEN MostCommonPrefix(uses, Tail(ps), ps[1], uses[ps[1]])
         ELSE MostCommonPrefix(uses, Tail(ps), prefix, n)

\* The orders in which a map with the keys ks can be ranged over.
Orders(ks) ==
    { o \in [1..Cardinality(ks) -> ks] : \A i, j \in DOMAIN o : i # j => o[i] # o[j] }

\* The errors repo.validate adds to b.problems for a branch: those of
\* Validate, then, on a release branch, the first version of a later major.
FutureVersionFinding(release, v) == [kind |-> "FutureVersion", release |-> release, v |-> v]

BranchProblems(b, isMain) ==
    LET vl == Versions(b.changes)
        future == { i \in 1..Len(vl) : vl[i].Major > b.releaseVersion.major }
    IN Validate(b.changes, isMain)
       \o (IF b.releaseVersion.ok /\ future # {}
           THEN << FutureVersionFinding(b.releaseVersion.major,
                                        vl[CHOOSE i \in future : \A j \in future : i <= j]) >>
           ELSE << >>)

\* A lookup that does not skip the versions with a flavor.
MainVersionsWithFlavored(r) ==
    IF r.mainBranch \in DOMAIN r.branches
    THEN ListSet(Versions(r.branches[r.mainBranch].changes))
    ELSE {}

\* The versions of the main branch's CHANGES that repo.validate looks up:
\* those without flavor; none when the main branch has no CHANGES file.
MainVersions(r) ==
    IF r.mainBranch \in DOMAIN r.branches
    THEN { v \in ListSet(Versions(r.branches[r.mainBranch].changes)) : v.Flavor = << >> }
    ELSE {}

\* A missing-branch set that asks for a branch per version, named as the tag
\* of the version is.
MissingBranchesPerVersion(r) ==
    { v \in MainVersions(r) : TagNameForVersion(r.versionStyle, v) \notin DOMAIN r.branches }

\* The missing sets that repo.validate computes.
MissingBranches(r) ==
    { v \in MainVersions(r) : BranchNameForVersion(r.versionStyle, v) \notin DOMAIN r.branches }

MissingTags(r) ==
    { v \in MainVersions(r) : TagNameForVersion(r.versionStyle, v) \notin r.tags }

MissingReleases(r) ==
    { v \in MainVersions(r) : ReleaseNameForVersion(r.versionStyle, v) \notin r.releases }

\* Names of branches, tags and releases, and the CHANGES text of each branch.
MainName == << "m" >>
DevName == << "d" >>
Release1Name == << "1", ".", "x", ".", "x" >>
Release2Name == << "v", "2", ".", "x" >>

TagNames ==
    { << "1", ".", "0", ".", "0" >>,
      << "2", ".", "0", ".", "0" >>,
      << "2", ".", "1" >>,
      << "v", "1", ".", "0", ".", "0" >>,
      << "x" >> }

ReleaseNames ==
    { << "1", ".", "0", ".", "0" >>,
      << "2", ".", "1", ".", "0" >>,
      << "v", "2", ".", "0", ".", "0" >> }

Line100 == << "1", ".", "0", ".", "0" >>
Line200 == << "2", ".", "0", ".", "0" >>
Line210 == << "2", ".", "1", ".", "0" >>
Line220d == << "2", ".", "2", ".", "0", "-", "d" >>
Line300 == << "3", ".", "0", ".", "0" >>

\* The CHANGES texts of the main branch: three releases below a development
\* version; the same without the development version; no version at all.
MainTexts ==
    { Join(<< Line220d, Line210, Line200, Line100 >>, <<"\n">>),
      Join(<< Line210, Line200, Line100 >>, <<"\n">>),
      << "x" >> }

\* The CHANGES text of the other branches: a version the main branch lacks.
OtherText(name) ==
    IF name = DevName THEN Join(<< Line300, Line100 >>, <<"\n">>)
    ELSE IF name = Release1Name THEN Join(<< Line200, Line100 >>, <<"\n">>)
    ELSE Line200

\* A branch as fetchBranches stores it.
Branch(name, txt) ==
    [changes |-> Read(txt).versions, releaseVersion |-> ParseReleaseBranch(name)]

\* The repo after fetchBranches, fetchTags and fetchReleases.
Fetched(mainInMap, mainText, others, tags, releases) ==
    [ pc |-> "fetched",
      mainBranch |-> MainName,
      branches |-> [ n \in others \cup (IF mainInMap THEN {MainName} ELSE {}) |->
                       IF n = MainName THEN Branch(n, mainText) ELSE Branch(n, OtherText(n)) ],
      tags |-> tags,
      releases |-> releases,
      versionStyle |-> NoStyle,
      missingBranches |-> {},
      missingTags |-> {},
      missingReleases |-> {},
      problems |-> {} ]

RepoInit ==
    /\ \E mainInMap \in BOOLEAN, mainText \in MainTexts,
       others \in SUBSET {DevName, Release1Name, Release2Name},
       tags \in SUBSET TagNames, releases \in SUBSET ReleaseNames :
        repo = Fetched(mainInMap, mainText, others, tags, releases)
    /\ SemverIdle /\ ChangesIdle /\ ScanIdle /\ PkgIdle /\ RelIdle

\* repo.determineVersionStyle(); the map of prefixes is ranged over in any order.
DetermineVersionStyle ==
    /\ repo.pc = "fetched"
    /\ \E order \in Orders(DOMAIN PrefixUses(repo)) :
           repo' = [repo EXCEPT
                      !.pc = "styled",
                      !.versionStyle =
                          [Prefix |-> MostCommonPrefix(PrefixUses(repo), order, DefaultPrefix, 0),
                           OmitPatch |-> ~UsesPatch(repo)]]
    /\ UNCHANGED <<semVars, docVars, scanVars, pkg, rel>>

\* repo.validate(); problems holds the returned problems, each with the name
\* of its branch (their order is that of the map of branches).
RepoValidate ==
    /\ repo.pc = "styled"
    /\ repo' = [repo EXCEPT
                  !.pc = "validated",
                  !.missingBranches = MissingBranches(repo),
                  !.missingTags = MissingTags(repo),
                  !.missingReleases = MissingReleases(repo),
                  !.problems =
                      UNION { { <<n, p>> :
                                  p \in Range(BranchProblems(repo.branches[n], n = repo.mainBranch)) } :
                              n \in DOMAIN repo.branches }]
    /\ UNCHANGED <<semVars, docVars, scanVars, pkg, rel>>

RepoNext == DetermineVersionStyle \/ RepoValidate

----------------------------------------------------------------------------
(* main: createMissingBranchesAndTags *)

\* The longest history of the CHANGES file, in commits.
MaxCommits == 3

\* What git show yields for the CHANGES file at a commit: an error, or a text.
Unreadable == [kind |-> "error"]
Snapshot(t) == [kind |-> "text", text |-> t]

\* The snapshots the histories are made of: no version; 1.0.0; 2.0.0 above
\* 1.0.0; a development version above both; a text that Read rejects; and a
\* commit that git show fails on.
Snapshots ==
    { Snapshot(<< "x" >>),
      Snapshot(Line100),
      Snapshot(Join(<< Line200, Line100 >>, <<"\n">>)),
      Snapshot(Join(<< Line220d, Line200, Line100 >>, <<"\n">>)),
      Snapshot(TooBig \o << ".", "0" >>),
      Unreadable }

\* The versions that can be missing; a history need not declare them.
ScanVersions == { V(1, 0, 0, << >>), V(2, 0, 0, << >>) }

\* A log that lists the oldest commit first.
GitLogOldestFirst(history) == [i \in 1..Len(history) |-> i]

\* Commits are named by their place in the history, 1 being the oldest.
\* g.Log(wd, path, -1): the commits of the path, the most recent first.
GitLog(history) == [i \in 1..Len(history) |-> Len(history) + 1 - i]

\* The way a loop over the log from its start would visit it.
VisitedFromStart(log, k) == log[k]

\* The loop over the log "for i := len(log) - 1; i >= 0; i--" visits the log
\* from its end: the k-th commit visited.
Visited(log, k) == log[Len(log) + 1 - k]

ErrSetup == [kind |-> "Setup"]
ErrLog == [kind |-> "Log"]
ErrRead(h) == [kind |-> "Read", h |-> h]
ErrParse(h) == [kind |-> "Parse", h |-> h]
ErrBranch(v) == [kind |-> "CreateBranch", v |-> v]
ErrTag(v) == [kind |-> "CreateTag", v |-> v]

\* The (version, hash) pairs appended for one commit: the versions of the
\* commit that are still missing, sorted.
NewPairs(declared, missing, h) ==
    LET l == SetList(SetUnion(declared, missing))
    IN [i \in 1..Len(l) |-> [v |-> l[i], h |-> h]]

ScanInit ==
    /\ SemverIdle /\ ChangesIdle /\ RepoIdle /\ PkgIdle /\ RelIdle
    /\ \E n \in 0..MaxCommits :
      \E history \in [1..n -> Snapshots],
         branches \in SUBSET ScanVersions, tags \in SUBSET ScanVersions :
        scan = [ pc |-> "start",
                 history |-> history,
                 seedBranches |-> branches,       \* r.missingBranches at the call
                 seedTags |-> tags,               \* r.missingTags at the call
                 rMissingBranches |-> branches,   \* r.missingBranches
                 rMissingTags |-> tags,           \* r.missingTags
                 missingBranches |-> {},
                 missingTags |-> {},
                 log |-> << >>,
                 k |-> 0,
                 branchesToCreate |-> << >>,
                 tagsToCreate |-> << >>,
                 errs |-> << >>,
                 numCreatedBranches |-> 0,
                 numCreatedTags |-> 0 ]

\* Where the function goes on after a loop, given the lists still to work on.
AfterScan(b, t) ==
    IF Len(b) > 0 THEN "branches" ELSE IF Len(t) > 0 THEN "tags" ELSE "done"

\* There is no main branch, or the checkout directory or the checkout fails:
\* the function returns that error alone.
SetupFails ==
    /\ scan.pc = "start"
    /\ scan' = [scan EXCEPT !.pc = "done", !.errs = << ErrSetup >>]
    /\ UNCHANGED <<semVars, docVars, repoVars, pkg, rel>>

\* git log fails: the function returns that error alone.
LogFails ==
    /\ scan.pc = "start"
    /\ scan' = [scan EXCEPT !.pc = "done",
                            !.missingBranches = scan.rMissingBranches,
                            !.missingTags = scan.rMissingTags,
                            !.errs = << ErrLog >>]
    /\ UNCHANGED <<semVars, docVars, repoVars, pkg, rel>>

\* The sets are cloned and the log is retrieved.
BeginScan ==
    /\ scan.pc = "start"
    /\ scan' = [scan EXCEPT !.pc = IF Len(scan.history) > 0 THEN "scan" ELSE "done",
                            !.missingBranches = scan.rMissingBranches,
                            !.missingTags = scan.rMissingTags,
                            !.log = GitLog(scan.history),
                            !.k = 1]
    /\ UNCHANGED <<semVars, docVars, repoVars, pkg, rel>>

\* The end of a pass of the loop over the log: the next commit, or the loops
\* that follow, given the lists b and t to create.
Advance(b, t) ==
    IF scan.k = Len(scan.log)
    THEN [pc |-> AfterScan(b, t), k |-> 1]
    ELSE [pc |-> "scan", k |-> scan.k + 1]

\* A pass that records the error and gives up the scan.
SkippedAborting(err) ==
    scan' = [scan EXCEPT !.errs = Append(scan.errs, err), !.k = 1, !.pc = "done"]

\* A pass that ends with "continue": the error is recorded.
Skipped(err) ==
    scan' = [scan EXCEPT
               !.errs = Append(scan.errs, err),
               !.k = Advance(scan.branchesToCreate, scan.tagsToCreate).k,
               !.pc = Advance(scan.branchesToCreate, scan.tagsToCreate).pc]

\* A pass that appends to the lists but leaves the versions in the sets.
PlannedKeepingMissing(declared, b, t) ==
    scan' = [scan EXCEPT
               !.branchesToCreate = b,
               !.tagsToCreate = t,
               !.k = Advance(b, t).k,
               !.pc = Advance(b, t).pc]

\* A pass for commit h whose snapshot declares the versions `declared`; b and
\* t are the lists to create after it.
Planned(declared, b, t) ==
    scan' = [scan EXCEPT
               !.missingBranches = scan.missingBranches \ declared,
               !.missingTags = scan.missingTags \ declared,
               !.branchesToCreate = b,
               !.tagsToCreate = t,
               !.k = Advance(b, t).k,
               !.pc = Advance(b, t).pc]

\* A pass that starts both plans afresh with the pairs of its commit.
DeclaresAfresh(h, declared) ==
    Planned(declared,
            NewPairs(declared, scan.missingBranches, h),
            NewPairs(declared, scan.missingTags, h))

Declares(h, declared) ==
    Planned(declared,
            scan.branchesToCreate \o NewPairs(declared, scan.missingBranches, h),
            scan.tagsToCreate \o NewPairs(declared, scan.missingTags, h))

\* The pass for commit h given what changes.Read made of its snapshot.
ReadCommit(h, c) ==
    IF ~c.ok THEN Skipped(ErrParse(h)) ELSE Declares(h, ListSet(Versions(c.versions)))

\* The pass for commit h given what git show yields for it.
ShownCommit(h, content) ==
    IF content.kind # "text" THEN Skipped(ErrRead(h)) ELSE ReadCommit(h, Read(content.text))

\* One pass of the loop over the log.
ScanCommit ==
    /\ scan.pc = "scan"
    /\ ShownCommit(Visited(scan.log, scan.k), scan.history[Visited(scan.log, scan.k)])
    /\ UNCHANGED <<semVars, docVars, repoVars, pkg, rel>>

\* A pass over branchesToCreate that takes the version out of the repo's set
\* whether the creation succeeded or not.
CreateBranchRemovingAnyway(ok) ==
    /\ scan.pc = "branches"
    /\ LET vh == scan.branchesToCreate[scan.k]
           last == scan.k = Len(scan.branchesToCreate)
       IN scan' = [scan EXCEPT
                     !.rMissingBranches = scan.rMissingBranches \ {vh.v},
                     !.numCreatedBranches = IF ok THEN scan.numCreatedBranches + 1
                                            ELSE scan.numCreatedBranches,
                     !.errs = IF ok THEN scan.errs ELSE Append(scan.errs, ErrBranch(vh.v)),
                     !.k = IF last THEN 1 ELSE scan.k + 1,
                     !.pc = IF last THEN AfterScan(<< >>, scan.tagsToCreate) ELSE "branches"]
    /\ UNCHANGED <<semVars, docVars, repoVars, pkg, rel>>

\* One pass of the loop over branchesToCreate; createReleaseBranch succeeds or fails.
CreateBranch(ok) ==
    /\ scan.pc = "branches"
    /\ LET vh == scan.branchesToCreate[scan.k]
           last == scan.k = Len(scan.branchesToCreate)
       IN scan' = [scan EXCEPT
                     !.rMissingBranches = IF ok THEN scan.rMissingBranches \ {vh.v}
                                          ELSE scan.rMissingBranches,
                     !.numCreatedBranches = IF ok THEN scan.numCreatedBranches + 1
                                            ELSE scan.numCreatedBranches,
                     !.errs = IF ok THEN scan.errs ELSE Append(scan.errs, ErrBranch(vh.v)),
                     !.k = IF last THEN 1 ELSE scan.k + 1,
                     !.pc = IF last THEN AfterScan(<< >>, scan.tagsToCreate) ELSE "branches"]
    /\ UNCHANGED <<semVars, docVars, repoVars, pkg, rel>>

\* One pass of the loop over tagsToCreate; createReleaseTag succeeds or fails.
CreateTag(ok) ==
    /\ scan.pc = "tags"
    /\ LET vh == scan.tagsToCreate[scan.k]
           last == scan.k = Len(scan.tagsToCreate)
       IN scan' = [scan EXCEPT
                     !.rMissingTags = IF ok THEN scan.rMissingTags \ {vh.v}
                                      ELSE scan.rMissingTags,
                     !.numCreatedTags = IF ok THEN scan.numCreatedTags + 1
                                        ELSE scan.numCreatedTags,
                     !.errs = IF ok THEN scan.errs ELSE Append(scan.errs, ErrTag(vh.v)),
                     !.k = IF last THEN 1 ELSE scan.k + 1,
                     !.pc = IF last THEN "done" ELSE "tags"]
    /\ UNCHANGED <<semVars, docVars, repoVars, pkg, rel>>

ScanNext ==
    \/ SetupFails
    \/ LogFails
    \/ BeginScan
    \/ ScanCommit
    \/ \E ok \in BOOLEAN : CreateBranch(ok)
    \/ \E ok \in BOOLEAN : CreateTag(ok)

----------------------------------------------------------------------------
(* Specifications *)

SpecSemver == SemverInit /\ [][SemverNext]_vars

SpecChanges == ChangesInit /\ [][ChangesNext]_vars

\* Read, then Validate alone: the Content is validated as it was read.
ValidateNext == \E isDev \in BOOLEAN : ValidateCall(isDev)

SpecValidate == ChangesInit /\ [][ValidateNext]_vars

\* Read, then the calls that return release notes.
SpecNotes == NotesInit /\ [][NotesNext]_vars

\* Read, then Versions().
VersionsNext == VersionsCall

SpecVersions == ChangesInit /\ [][VersionsNext]_vars

SpecRepo == RepoInit /\ [][RepoNext]_vars

SpecScan == ScanInit /\ [][ScanNext]_vars

----------------------------------------------------------------------------
(* package pkg: the name of a build package *)

\* The Type values: Tar = iota, Zip.
Tar == 0
Zip == 1

\* The characters hex.DecodeString accepts.
HexCh == Digit \cup {"a", "b", "c", "d", "e", "f", "A", "B", "C", "D", "E", "F"}

\* Whether hex.DecodeString(s) returns no error: an even number of
\* hexadecimal characters.
HexDecodes(s) == Len(s) % 2 = 0 /\ \A i \in 1..Len(s) : s[i] \in HexCh

\* strings.Contains(s, sub)
Contains(s, sub) ==
    \E i \in 1..(Len(s) - Len(sub) + 1) : Sub(s, i, i + Len(sub)) = sub

\* strings.Split(s, sep) for a separator that is not empty: cut at each
\* leftmost occurrence of sep, the occurrences not overlapping.
RECURSIVE SplitOn(_, _)
SplitOn(s, sep) ==
    IF ~Contains(s, sep) THEN << s >>
    ELSE LET k == CHOOSE i \in 1..(Len(s) - Len(sep) + 1) :
                      /\ Sub(s, i, i + Len(sep)) = sep
                      /\ \A j \in 1..(i - 1) : Sub(s, j, j + Len(sep)) # sep
         IN << Sub(s, 1, k) >> \o SplitOn(Sub(s, k + Len(sep), Len(s) + 1), sep)

\* The file part of filepath.Split(path): what follows the last separator.
FileOf(path) ==
    LET seps == { i \in 1..Len(path) : path[i] = "/" }
    IN IF seps = {} THEN path
       ELSE Sub(path, (CHOOSE i \in seps : \A j \in seps : j <= i) + 1, Len(path) + 1)

\* filepath.Ext(name): the suffix of the last element of name that begins at
\* its last dot, empty when it has none.
Ext(name) ==
    LET el == FileOf(name)
        dots == { i \in 1..Len(el) : el[i] = "." }
    IN IF dots = {} THEN << >>
       ELSE Sub(el, CHOOSE i \in dots : \A j \in dots : j <= i, Len(el) + 1)

ZipExt == << ".", "z", "i", "p" >>
TarExt == << ".", "t", "a", "r" >>

\* ShortSHA(sha)
ShortSHA(sha) == IF Len(sha) > 6 THEN Sub(sha, 1, 7) ELSE sha

\* Info.Validate(): whether it returns nil.
InfoValidate(i) ==
    /\ ~Contains(i.Name, << "-", "-" >>)
    /\ HexDecodes(i.SHA)
    /\ i.Type \in {Zip, Tar}

\* Info.String()
InfoString(i) ==
    LET parts == << i.Name, VersionString(i.Version) >>
                     \o (IF i.SHA # << >> THEN << ShortSHA(i.SHA) >> ELSE << >>)
        ext == IF i.Type = Zip THEN ZipExt ELSE IF i.Type = Tar THEN TarExt ELSE << >>
    IN Join(parts, << "-", "-" >>) \o ext

\* Info.Canonical(): ok = FALSE stands for the error result.
Canonical(i) ==
    IF ~InfoValidate(i) THEN [ok |-> FALSE, name |-> << >>]
    ELSE [ok |-> TRUE, name |-> InfoString(i)]

ZeroInfo == [Name |-> << >>, Version |-> ZeroVersion, SHA |-> << >>, Type |-> Tar]

\* pkg.Parse(path): ok = FALSE stands for the error result.
PkgParse(path) ==
    LET name == FileOf(path)
        ext == Ext(name)
        noext == Sub(name, 1, Len(name) - Len(ext) + 1)
        parts == SplitOn(noext, << "-", "-" >>)
        version == IF Len(parts) >= 2 THEN Parse(parts[2]) ELSE [ok |-> FALSE, v |-> ZeroVersion]
    IN IF ext \notin {ZipExt, TarExt} THEN [ok |-> FALSE, info |-> ZeroInfo]
       ELSE IF Len(parts) < 2 \/ Len(parts) > 3 THEN [ok |-> FALSE, info |-> ZeroInfo]
       ELSE IF ~version.ok THEN [ok |-> FALSE, info |-> ZeroInfo]
       ELSE [ok |-> TRUE,
             info |-> [Name |-> parts[1],
                       Version |-> version.v,
                       SHA |-> IF Len(parts) > 2 THEN parts[Len(parts)] ELSE << >>,
                       Type |-> IF ext = ZipExt THEN Zip ELSE Tar]]

\* The Infos that are canonicalised: names that are plain, that hold or end
\* with a dash, that hold "--", a dot or a path separator; versions with and
\* without flavor; no SHA, a short one, a long one, and two that are not
\* hexadecimal strings; the two types and a value that is none.
InfoNames ==
    { << "a" >>, << "a", "-", "b" >>, << "a", "-" >>, << "a", "-", "-", "b" >>,
      << "a", ".", "b" >>, << "a", "/", "b" >> }

InfoVersions == { V(1, 0, 0, << >>), V(1, 2, 3, << "d" >>) }

InfoSHAs ==
    { << >>, << "a", "b" >>, << "0", "1", "2", "3", "4", "5", "6", "7" >>,
      << "a", "b", "c" >>, << "x", "y" >> }

InfoTypes == {Tar, Zip, 2}

Infos == [Name : InfoNames, Version : InfoVersions, SHA : InfoSHAs, Type : InfoTypes]

\* The directories a package file is put in.
Dirs == { << >>, << "d", "/" >>, << "d", ".", "e", "/" >> }

PkgInit ==
    /\ \E i \in Infos : pkg = [pc |-> "info", info |-> i]
    /\ SemverIdle /\ ChangesIdle /\ RepoIdle /\ ScanIdle /\ RelIdle

\* name, err := info.Canonical()
CanonicalCall ==
    /\ pkg.pc = "info"
    /\ pkg' = [pc |-> "canonical", info |-> pkg.info, canonical |-> Canonical(pkg.info)]
    /\ UNCHANGED <<semVars, docVars, repoVars, scanVars, rel>>

\* parsed, err := pkg.Parse(filepath.Join(dir, name))
PkgParseCall(dir) ==
    /\ pkg.pc = "canonical"
    /\ pkg.canonical.ok
    /\ pkg' = [pc |-> "parsed", info |-> pkg.info, canonical |-> pkg.canonical,
               dir |-> dir, parsed |-> PkgParse(dir \o pkg.canonical.name)]
    /\ UNCHANGED <<semVars, docVars, repoVars, scanVars, rel>>

PkgNext == CanonicalCall \/ \E dir \in Dirs : PkgParseCall(dir)

SpecPkg == PkgInit /\ [][PkgNext]_vars

----------------------------------------------------------------------------
(* main: doRelease *)

\* Content.CurrentVersion() on the entries vs
CurrentVersion(vs) == IF Len(vs) = 0 THEN ZeroVersion ELSE vs[1].Version

\* A next version that keeps the patch number of the release.
NextVerSamePatch(v, flavor) == [v EXCEPT !.Flavor = flavor]

\* The version the released main branch goes on with: v with the flavor the
\* document had, and the next patch number.
NextVer(v, flavor) == [v EXCEPT !.Flavor = flavor, !.Patch = v.Patch + 1]

\* "\n[Add release notes here]\n"
StubNotes ==
    << "\n", "[", "A", "d", "d", " ", "r", "e", "l", "e", "a", "s", "e", " ",
       "n", "o", "t", "e", "s", " ", "h", "e", "r", "e", "]", "\n" >>

\* The day of the release: time.Now().
Today == << "2", "0", "2", "0", "-", "0", "6", "-", "1", "6" >>

\* The versions asked to be released: below, at and above the versions of the
\* documents, one of them with a flavor.
ReleaseVersions ==
    { V(1, 0, 0, << >>), V(1, 1, 0, << >>), V(1, 1, 0, << "d" >>), V(2, 0, 1, << >>) }

\* The errors doRelease returns, by the step that failed.
ErrNothingToRelease == "Nothing to release"
ErrCheckout == "Failed to checkout"
ErrNewChanges == "New changes have landed"
ErrCommit == "Failed to commit"
ErrReleaseBranch == "Failed to create release branch"
ErrReleaseTag == "Failed to create release tag"
ErrFetchTags == "Failed to fetch tags"
ErrFindTag == "Failed to find release tag"
ErrFindNotes == "Failed to find release notes"
ErrCreateRelease == "Failed to create release"
ErrPush == "Failed to push changes to main branch"

\* doRelease is about to run on the branch `from`, whose Content the
\* variables of the changes package hold, for the version v.
ReleaseInit ==
    /\ \E t \in NoteTexts : Loaded(t, Read(t))
    /\ readOk
    /\ \E v \in ReleaseVersions :
           rel = [pc |-> "start", v |-> v, flavor |-> << >>, head |-> "", done |-> << >>,
                  err |-> ""]
    /\ SemverIdle /\ RepoIdle /\ ScanIdle /\ PkgIdle

\* An error that is noted while doRelease goes on to the stub of the notes.
Ignored(err) == rel' = [rel EXCEPT !.pc = "released", !.err = err]

\* doRelease returns err; nothing more is done.
Returned(err) == rel' = [rel EXCEPT !.pc = "returned", !.err = err]

\* The step named what succeeded; doRelease goes on at pc.
Done(what, pc) == rel' = [rel EXCEPT !.pc = pc, !.done = Append(rel.done, what)]

\* The sanity check on the flavor, then the checkout of the branch and the
\* comparison of its head with from.sha. out is what the checkout met: it
\* fails, the head has moved, or the head is the recorded one.
Checkout(out) ==
    /\ rel.pc = "start"
    /\ IF CurrentVersion(versions).Flavor = << >> THEN Returned(ErrNothingToRelease)
       ELSE IF out = "fails" THEN rel' = [rel EXCEPT !.pc = "returned", !.err = ErrCheckout]
       ELSE IF out = "moved"
       THEN rel' = [rel EXCEPT !.pc = "returned", !.head = out, !.err = ErrNewChanges]
       ELSE rel' = [rel EXCEPT !.pc = "checked out", !.head = out,
                               !.flavor = CurrentVersion(versions).Flavor]
    /\ UNCHANGED <<semVars, docVars, repoVars, scanVars, pkg>>

\* v.Flavor = ""; changes.AdjustCurrentVersion(v, time.Now()); saveAndCommit.
Finalize(ok) ==
    /\ rel.pc = "checked out"
    /\ LET v == [rel.v EXCEPT !.Flavor = << >>]
           cv == AdjustedEntry(versions[1], v, Today)
       IN /\ versions' = [versions EXCEPT ![1] = cv]
          /\ lines' = [lines EXCEPT ![cv.line] = EntryString(cv)]
          /\ IF ok
             THEN rel' = [rel EXCEPT !.pc = "committed", !.v = v,
                                     !.done = Append(rel.done, "release commit")]
             ELSE rel' = [rel EXCEPT !.pc = "returned", !.v = v, !.err = ErrCommit]
    /\ UNCHANGED <<text, readOk, docOut, calls, semVars, repoVars, scanVars, pkg>>

\* createReleaseBranch: the release branch is updated or created, and pushed.
CreateReleaseBranch(ok) ==
    /\ rel.pc = "committed"
    /\ IF ok THEN Done("release branch", "branched") ELSE Returned(ErrReleaseBranch)
    /\ UNCHANGED <<semVars, docVars, repoVars, scanVars, pkg>>

\* createReleaseTag: the tag is made and the tags are pushed.
CreateReleaseTag(ok) ==
    /\ rel.pc = "branched"
    /\ IF ok THEN Done("release tag", "tagged") ELSE Returned(ErrReleaseTag)
    /\ UNCHANGED <<semVars, docVars, repoVars, scanVars, pkg>>

\* r.fetchTags, then createRelease: the tag is looked up in the tags just
\* fetched, the release notes of v in the Content of the tag (the one just
\* committed), and the release is created.
CreateRelease(fetched, tagged, ok) ==
    /\ rel.pc = "tagged"
    /\ IF ~fetched THEN Returned(ErrFetchTags)
       ELSE IF ~tagged THEN Returned(ErrFindTag)
       ELSE IF ~ReleaseNotes(lines, versions, rel.v).found THEN Returned(ErrFindNotes)
       ELSE IF ~ok THEN Returned(ErrCreateRelease)
       ELSE Done("release", "released")
    /\ UNCHANGED <<semVars, docVars, repoVars, scanVars, pkg>>

\* changes.AddNewVersion(nextVer, time.Time{}, stub), its error not looked
\* at; saveAndCommit.
Stub(ok) ==
    /\ rel.pc = "released"
    /\ LET ls == NewVersionLines(lines, versions, NextVer(rel.v, rel.flavor), ZeroTime, StubNotes)
       IN /\ lines' = ls
          /\ versions' = ContentParse(ls).versions
    /\ IF ok THEN Done("stub commit", "stubbed") ELSE Returned(ErrCommit)
    /\ UNCHANGED <<text, readOk, docOut, calls, semVars, repoVars, scanVars, pkg>>

\* g.Push of the stub commit to the branch `from`.
PushMain(ok) ==
    /\ rel.pc = "stubbed"
    /\ IF ok THEN Done("main branch", "returned") ELSE Returned(ErrPush)
    /\ UNCHANGED <<semVars, docVars, repoVars, scanVars, pkg>>

ReleaseNext ==
    \/ \E out \in {"ok", "fails", "moved"} : Checkout(out)
    \/ \E ok \in BOOLEAN : Finalize(ok)
    \/ \E ok \in BOOLEAN : CreateReleaseBranch(ok)
    \/ \E ok \in BOOLEAN : CreateReleaseTag(ok)
    \/ \E fetched \in BOOLEAN, tagged \in BOOLEAN, ok \in BOOLEAN : CreateRelease(fetched, tagged, ok)
    \/ \E ok \in BOOLEAN : Stub(ok)
    \/ \E ok \in BOOLEAN : PushMain(ok)

SpecRelease == ReleaseInit /\ [][ReleaseNext]_vars

----------------------------------------------------------------------------
(* main: flowRepo, from the confirmation to create what is missing *)

\* The versions whose release can be missing, the styles of the repo, and the
\* names and CHANGES texts of the tags that fetchTags can find.
FlowVersions == { V(1, 0, 0, << >>), V(2, 0, 0, << >>) }

FlowStyles == { NoStyle, [Prefix |-> << "v" >>, OmitPatch |-> TRUE] }

FlowTagNames == { Line100, Line200, << "v", "1", ".", "0" >> }

FlowTagTexts == { Line100, Join(<< Line200, << >>, << "x" >>, Line100 >>, <<"\n">>) }

\* The maps r.tags can be: each tag holds the Content of its CHANGES file.
FlowTags ==
    UNION { [names -> { Read(t) : t \in FlowTagTexts }] : names \in SUBSET FlowTagNames }

\* The errors of createRelease for a version.
ErrNoTag(v) == [kind |-> "FindTag", v |-> v]
ErrNoNotes(v) == [kind |-> "FindNotes", v |-> v]
ErrRelease(v) == [kind |-> "CreateRelease", v |-> v]
ErrCreating == [kind |-> "BranchesAndTags"]

\* createRelease(ctx, r, u, c, version): the error it returns, NoError for
\* nil; ok tells whether the request to create the release succeeds.
NoError == [kind |-> "nil"]

CreateReleaseError(style, tags, version, ok) ==
    LET tagName == TagNameForVersion(style, version)
    IN IF tagName \notin DOMAIN tags THEN ErrNoTag(version)
       ELSE IF ~ReleaseNotes(tags[tagName].lines, tags[tagName].versions, version).found
       THEN ErrNoNotes(version)
       ELSE IF ~ok THEN ErrRelease(version)
       ELSE NoError

\* A condition that lets the releases be created whatever came before.
ReleasesWantedAnyway(missingReleases, errs) == Cardinality(missingReleases) > 0

\* len(r.missingReleases) > 0 && len(errs) == 0
ReleasesWanted(missingReleases, errs) == Cardinality(missingReleases) > 0 /\ Len(errs) = 0

\* The user has confirmed the creation. creating tells whether branches or
\* tags are missing.
FlowInit ==
    /\ \E style \in FlowStyles, tags \in FlowTags, missing \in SUBSET FlowVersions,
         creating \in BOOLEAN :
           /\ creating \/ missing # {}
           /\ rel = [ pc |-> "confirmed",
                      versionStyle |-> style,
                      tags |-> tags,
                      creating |-> creating,
                      seedReleases |-> missing,     \* r.missingReleases at the confirmation
                      missingReleases |-> missing,  \* r.missingReleases
                      todo |-> {},                  \* the versions the range has yet to visit
                      released |-> {},              \* the releases created
                      errs |-> << >>,
                      numCreatedReleases |-> 0 ]
    /\ SemverIdle /\ ChangesIdle /\ RepoIdle /\ ScanIdle /\ PkgIdle

\* Where flowRepo goes on once the branches and tags are dealt with.
ToReleases(errs, tags) ==
    rel' = [rel EXCEPT
              !.pc = "releases",
              !.errs = errs,
              !.tags = tags,
              !.todo = IF ReleasesWanted(rel.missingReleases, errs)
                       THEN rel.missingReleases ELSE {}]

\* createMissingBranchesAndTags returns the errors e; the branches and the
\* tags are fetched again, which fails or yields the tags `tags`.
CreateBranchesAndTags(e, fetched, tags) ==
    /\ rel.pc = "confirmed"
    /\ rel.creating
    /\ IF ~fetched THEN rel' = [rel EXCEPT !.pc = "returned", !.errs = e]
       ELSE ToReleases(e, tags)
    /\ UNCHANGED <<semVars, docVars, repoVars, scanVars, pkg>>

\* No branch and no tag is missing: the tags stay as they were fetched.
NothingToCreate ==
    /\ rel.pc = "confirmed"
    /\ ~rel.creating
    /\ ToReleases(rel.errs, rel.tags)
    /\ UNCHANGED <<semVars, docVars, repoVars, scanVars, pkg>>

\* One pass of the loop of createMissingReleases, for the version the range
\* yields next.
CreateMissingRelease(version, ok) ==
    /\ rel.pc = "releases"
    /\ version \in rel.todo
    /\ LET err == CreateReleaseError(rel.versionStyle, rel.tags, version, ok)
       IN IF err # NoError
          THEN rel' = [rel EXCEPT !.todo = rel.todo \ {version},
                                  !.errs = Append(rel.errs, err)]
          ELSE rel' = [rel EXCEPT !.todo = rel.todo \ {version},
                                  !.released = rel.released \cup {version},
                                  !.missingReleases = rel.missingReleases \ {version},
                                  !.numCreatedReleases = rel.numCreatedReleases + 1]
    /\ UNCHANGED <<semVars, docVars, repoVars, scanVars, pkg>>

\* The message with the counts is shown; flowRepo returns errRestartFlow.
ShowCreated ==
    /\ rel.pc = "releases"
    /\ rel.todo = {}
    /\ rel' = [rel EXCEPT !.pc = "restart"]
    /\ UNCHANGED <<semVars, docVars, repoVars, scanVars, pkg>>

FlowNext ==
    \/ \E e \in {<< >>, << ErrCreating >>}, fetched \in BOOLEAN, tags \in FlowTags :
           CreateBranchesAndTags(e, fetched, tags)
    \/ NothingToCreate
    \/ \E version \in FlowVersions, ok \in BOOLEAN : CreateMissingRelease(version, ok)
    \/ ShowCreated

SpecFlow == FlowInit /\ [][FlowNext]_vars

----------------------------------------------------------------------------
(* Properties *)

\* The number of places of the sequence f that hold x.
Count(f, x) == Cardinality({ i \in DOMAIN f : f[i] = x })

\* a > b by (major, minor, patch), the flavors not looked at.
TripleGreater(a, b) ==
    \/ a.Major > b.Major
    \/ a.Major = b.Major /\ a.Minor > b.Minor
    \/ a.Major = b.Major /\ a.Minor = b.Minor /\ a.Patch > b.Patch

\* The order the documentation gives: (major, minor, patch) first; then, when
\* flavors count, no flavor above any flavor and two flavors by their text.
DocumentedCompare(a, b, compareFlavor) ==
    IF TripleGreater(a, b) THEN 1
    ELSE IF TripleGreater(b, a) THEN -1
    ELSE IF ~compareFlavor \/ a.Flavor = b.Flavor THEN 0
    ELSE IF a.Flavor = << >> THEN 1
    ELSE IF b.Flavor = << >> THEN -1
    ELSE IF StrLess(a.Flavor, b.Flavor) THEN -1 ELSE 1

Validated == repo.pc = "validated"

\* The versions without flavor that the CHANGES of the main branch declares.
Declared ==
    IF repo.mainBranch \in DOMAIN repo.branches
    THEN { e.Version : e \in { x \in Range(repo.branches[repo.mainBranch].changes) :
                                   x.Version.Flavor = << >> } }
    ELSE {}

\* The versions of the names that Parse accepts and whose prefix is that of the style.
ParsedWithPrefix(style, names) ==
    { Parse(n).v : n \in { m \in names : Parse(m).ok /\ ParseStyle(m).style.Prefix = style.Prefix } }

\* The versions of the names that Parse accepts and that are written as the
\* style writes their version.
ParsedAsWritten(style, names) ==
    { Parse(n).v : n \in { m \in names : Parse(m).ok /\ Format(style, Parse(m).v) = m } }

\* C2 as stated: the missing tags (releases) are the declared versions without
\* flavor minus the versions parsed from the tag (release) names that carry the
\* prefix of the inferred style.
C2_MissingIsDeclaredMinusParsed ==
    Validated =>
        /\ repo.missingTags = Declared \ ParsedWithPrefix(repo.versionStyle, repo.tags)
        /\ repo.missingReleases = Declared \ ParsedWithPrefix(repo.versionStyle, repo.releases)

\* C2: the missing tags (releases) are the versions without flavor that the
\* CHANGES of the main branch declares, minus the versions parsed from those
\* tag (release) names that are written exactly as the inferred style writes
\* their version; versions with a flavor and versions of other branches only
\* are in no missing set.
C2_MissingIsDeclaredMinusWritten ==
    Validated =>
        /\ repo.missingTags = Declared \ ParsedAsWritten(repo.versionStyle, repo.tags)
        /\ repo.missingReleases = Declared \ ParsedAsWritten(repo.versionStyle, repo.releases)
        /\ \A v \in repo.missingBranches \cup repo.missingTags \cup repo.missingReleases :
               v.Flavor = << >> /\ v \in Declared

\* The main branch declares 1.0.0, 2.0.0, 2.1.0 and a development version,
\* another branch declares 3.0.0, the tags are 1.0.0 and 2.0.0: the missing
\* tag is 2.1.0.
C2_Witness ==
    /\ Validated
    /\ Declared = { V(1, 0, 0, << >>), V(2, 0, 0, << >>), V(2, 1, 0, << >>) }
    /\ \E e \in Range(repo.branches[repo.mainBranch].changes) : e.Version.Flavor # << >>
    /\ DevName \in DOMAIN repo.branches
    /\ repo.tags = { Line100, Line200 }
    /\ repo.missingTags = { V(2, 1, 0, << >>) }
    /\ repo.missingReleases = { V(2, 0, 0, << >>), V(2, 1, 0, << >>) }

\* The scan of the history ran to its end.
ScanMade ==
    /\ scan.pc \in {"branches", "tags", "done"}
    /\ scan.errs # << ErrSetup >>
    /\ scan.errs # << ErrLog >>

\* What changes.Read makes of each snapshot; a commit that cannot be read
\* counts as not parsed.
SnapshotsRead ==
    { [snapshot |-> s,
       read |-> IF s.kind = "text" THEN Read(s.text)
                ELSE [ok |-> FALSE, lines |-> << >>, versions |-> << >>]] : s \in Snapshots }

\* What changes.Read makes of the snapshots of the commits from h on.
RECURSIVE SnapshotsReadFrom(_)
SnapshotsReadFrom(h) ==
    IF h > Len(scan.history) THEN << >>
    ELSE << (CHOOSE p \in SnapshotsRead : p.snapshot = scan.history[h]).read >>
         \o SnapshotsReadFrom(h + 1)

\* The versions declared by the snapshot of commit h, none when the snapshot
\* could not be read or parsed.
DeclaredAt(h) ==
    LET s == scan.history[h]
    IN IF s.kind = "text" /\ Read(s.text).ok
       THEN { e.Version : e \in Range(Read(s.text).versions) }
       ELSE {}

\* The versions each commit declares, given what Read made of each snapshot.
DeclaredGiven(r) == [h \in DOMAIN r |-> { e.Version : e \in Range(r[h].versions) }]

\* The versions each commit of the history declares.
DeclaredIn == DeclaredGiven(SnapshotsReadFrom(1))

\* Whether h is the earliest commit that declares v, given what each commit declares.
Earliest(d, v, h) == v \in d[h] /\ \A g \in 1..(h - 1) : v \notin d[g]

\* Whether the plan pairs each version of the set that some snapshot declares
\* with one commit, the earliest that declares it.
PairsWithEarliest(d, plan, set) ==
    \A v \in set :
        (\E h \in DOMAIN d : v \in d[h]) =>
            /\ Cardinality({ i \in DOMAIN plan : plan[i].v = v }) = 1
            /\ \A i \in DOMAIN plan : plan[i].v = v => Earliest(d, v, plan[i].h)

\* C1: after the scan, every version of the initial set of missing branches
\* (tags) that a read and parsed snapshot declares is paired in the plan with
\* the earliest commit that declares it, and with no other.
C1_EarliestCommit ==
    ScanMade =>
        LET d == DeclaredIn
        IN /\ PairsWithEarliest(d, scan.branchesToCreate, scan.seedBranches)
           /\ PairsWithEarliest(d, scan.tagsToCreate, scan.seedTags)

\* A history of three commits, the version 1.0.0 declared by the second and the
\* third: the tag of 1.0.0 is planned at the second.
C1_Witness ==
    /\ ScanMade
    /\ Len(scan.history) = 3
    /\ DeclaredAt(1) = {}
    /\ V(1, 0, 0, << >>) \in DeclaredAt(2) \cap DeclaredAt(3) \cap scan.seedTags
    /\ \E i \in DOMAIN scan.tagsToCreate :
           scan.tagsToCreate[i] = [v |-> V(1, 0, 0, << >>), h |-> 2]

CompareDone == semIn.op = "Compare" /\ semOut # Idle

\* C5: Compare orders by (major, minor, patch) whatever the flavors; at equal
\* triples, with flavors compared, a version without flavor is greater than one
\* with a flavor and two flavors compare by their text; with flavors not
\* compared, equal triples are equal.
C5_CompareAsDocumented ==
    CompareDone => semOut.ret = DocumentedCompare(semIn.a, semIn.b, semIn.compareFlavor)

FormatParsedDone == semIn.op = "FormatParsed" /\ semOut # Idle

\* Whether a number is written without leading zeros.
NoLeadingZero(ds) == Len(ds) <= 1 \/ ds[1] # "0"

\* Whether the major, minor and patch numbers of the version string s are
\* written without leading zeros.
PlainNumbers(s) ==
    LET m == FindVersion(s).m
    IN NoLeadingZero(m.major) /\ NoLeadingZero(m.minor) /\ NoLeadingZero(m.patch)

\* C6 as stated: every string Parse accepts is formatted back to itself by the
\* style parsed from it.
C6_RoundTripOfEveryString ==
    FormatParsedDone => semOut.out = semIn.s

\* C6: every string Parse accepts whose major, minor and patch numbers have no
\* leading zeros is formatted back to itself by the style parsed from it.
C6_RoundTripOfPlainNumbers ==
    FormatParsedDone /\ PlainNumbers(semIn.s) => semOut.out = semIn.s

\* "v2.3-dev" parsed to 2.3.0-dev with style ("v", patch omitted), and formatted back.
C6_Witness ==
    /\ FormatParsedDone
    /\ semIn.s = << "v", "2", ".", "3", "-", "d", "e", "v" >>
    /\ semOut.v = V(2, 3, 0, << "d", "e", "v" >>)
    /\ semOut.style = [Prefix |-> << "v" >>, OmitPatch |-> TRUE]
    /\ semOut.out = semIn.s

ReadDone == docOut.op = "Read"

\* Whether some line of the text t holds a run of more than 18 digits.
HasLongNumber(t) ==
    \E i \in 1..Len(t) : Run(t, i, Digit) > 18

\* C3 as stated: Read succeeds on any text and the Content serializes to the text.
C3_ReadAlwaysRoundTrips ==
    ReadDone => readOk /\ ContentString(lines) = text

\* C3: Read succeeds on any text whose numbers have at most 18 digits, and
\* whenever Read succeeds the Content serializes to the text read.
C3_ReadRoundTrips ==
    ReadDone => /\ ~HasLongNumber(text) => readOk
                /\ readOk => ContentString(lines) = text

\* A text with headings, other lines and a newline at its end was read.
C3_Witness ==
    /\ ReadDone /\ readOk
    /\ Len(versions) >= 1
    /\ Len(lines) > Len(versions) + 1
    /\ lines[Len(lines)] = << >>
    /\ ContentString(lines) = text

Mutated == Usable /\ docOut.op \in {"AdjustCurrentVersion", "AddNewVersion"}

\* C4 as stated: after the mutating calls the stored entries are the entries
\* that parsing the serialized text yields.
C4_EntriesAreReparsedEntries ==
    Mutated => Read(ContentString(lines)).ok
               /\ versions = Read(ContentString(lines)).versions

\* An entry without the flag of its style that tells whether the patch digit
\* is left out.
SansOmitPatch(e) ==
    [Version |-> e.Version, line |-> e.line, prefix |-> e.prefix,
     stylePrefix |-> e.style.Prefix, sep |-> e.sep, date |-> e.date]

\* C4: after mutating calls that returned no error, the stored entries agree
\* with the entries parsed from the serialized text in number, line, marker,
\* version, style prefix, separator and date; the patch-omission flag of any
\* entry but the first agrees too, and that of the first entry differs only
\* by being set while its heading shows a patch digit.
C4_EntriesMatchText ==
    Mutated =>
        LET r == Read(ContentString(lines))
        IN /\ r.ok
           /\ Len(r.versions) = Len(versions)
           /\ \A i \in 1..Len(versions) :
                  /\ SansOmitPatch(versions[i]) = SansOmitPatch(r.versions[i])
                  /\ i > 1 => versions[i] = r.versions[i]
                  /\ versions[i] # r.versions[i] =>
                         versions[i].style.OmitPatch /\ versions[i].Version.Patch # 0

\* The first entry was adjusted, a version was added above it, and the text
\* still has an entry further down.
C4_Witness ==
    /\ Mutated /\ calls = 2
    /\ docOut.op = "AddNewVersion"
    /\ Len(versions) >= 3
    /\ versions = Read(ContentString(lines)).versions

ValidateDone == docOut.op = "Validate"

\* The pairs of entries next to each other, by the index of the lower one.
Pairs == 2..Len(versions)

\* C7 as stated: a pair of adjacent entries has a not-greater finding exactly
\* when the upper one is not greater than the lower one with flavors compared.
C7_OrderFindingsFlavorAware ==
    ValidateDone =>
        \A k \in Pairs :
            Count(docOut.errs, NotGreaterFinding(versions[k - 1], versions[k]))
              = IF DocumentedCompare(versions[k - 1].Version, versions[k].Version, TRUE) = 1
                THEN 0 ELSE 1

\* C7: a pair of adjacent entries has one not-greater finding, citing both
\* versions and both lines, exactly when the upper one is not greater than the
\* lower one by (major, minor, patch), flavors ignored; there is no other
\* not-greater finding.
C7_OrderFindings ==
    ValidateDone =>
        /\ \A k \in Pairs :
               Count(docOut.errs, NotGreaterFinding(versions[k - 1], versions[k]))
                 = IF TripleGreater(versions[k - 1].Version, versions[k].Version) THEN 0 ELSE 1
        /\ \A i \in DOMAIN docOut.errs :
               docOut.errs[i].kind = "NotGreater" =>
                   \E k \in Pairs : docOut.errs[i] = NotGreaterFinding(versions[k - 1], versions[k])

\* Two adjacent entries with the same version got exactly one finding.
C7_Witness ==
    /\ ValidateDone
    /\ \E k \in Pairs :
           /\ versions[k - 1].Version = versions[k].Version
           /\ Count(docOut.errs, NotGreaterFinding(versions[k - 1], versions[k])) = 1
           /\ Cardinality({ i \in DOMAIN docOut.errs : docOut.errs[i].kind = "NotGreater" }) = 1

\* The entries decrease strictly from top to bottom and no entry but the first
\* has a flavor. With no flavor below the top, an entry is above the next one
\* in the documented order, flavors compared, exactly when it is above it by
\* (major, minor, patch); either is enough here.
WellFormed ==
    /\ Len(versions) >= 1
    /\ \A k \in Pairs :
           \/ DocumentedCompare(versions[k - 1].Version, versions[k].Version, TRUE) = 1
           \/ TripleGreater(versions[k - 1].Version, versions[k].Version)
    /\ \A k \in Pairs : versions[k].Version.Flavor = << >>

\* C8: on a well-formed document Validate(false) returns nothing, and
\* Validate(true) returns nothing when the topmost entry has a flavor.
C8_WellFormedHasNoFindings ==
    ValidateDone /\ WellFormed /\ (docOut.isDev => versions[1].Version.Flavor # << >>)
        => docOut.errs = << >>

\* Validate(true) returned nothing for a document of several entries.
C8_Witness ==
    /\ ValidateDone /\ WellFormed
    /\ docOut.isDev
    /\ Len(versions) >= 2
    /\ versions[1].Version.Flavor # << >>
    /\ docOut.errs = << >>

TopNotFlavoredReported ==
    \E i \in DOMAIN docOut.errs : docOut.errs[i].kind = "TopNotFlavored"

\* C9: Validate(true) reports that the topmost version has no flavor exactly
\* when there are entries and the first has none; Validate(false) never does.
C9_TopFlavorRule ==
    ValidateDone =>
        /\ TopNotFlavoredReported <=>
               docOut.isDev /\ Len(versions) >= 1 /\ versions[1].Version.Flavor = << >>
        /\ TopNotFlavoredReported =>
               Count(docOut.errs, TopNotFlavoredFinding(versions[1])) = 1

\* Validate(true) reported the unflavored top of a document of several entries.
C9_Witness ==
    /\ ValidateDone /\ docOut.isDev
    /\ Len(versions) >= 2
    /\ versions[1].Version.Flavor = << >>
    /\ docOut.errs[1] = TopNotFlavoredFinding(versions[1])

\* C10: every entry with a flavor that is not the first has exactly one
\* flavored-finding citing its version and line; no other flavored-finding is
\* returned, none for the first entry.
C10_FlavorRule ==
    ValidateDone =>
        /\ \A k \in Pairs :
               Count(docOut.errs, FlavoredFinding(versions[k]))
                 = IF versions[k].Version.Flavor # << >> THEN 1 ELSE 0
        /\ \A i \in DOMAIN docOut.errs :
               docOut.errs[i].kind = "Flavored" =>
                   \E k \in Pairs : docOut.errs[i] = FlavoredFinding(versions[k])

\* A document whose first and second entries both have a flavor: only the
\* second is reported.
C10_Witness ==
    /\ ValidateDone
    /\ Len(versions) >= 2
    /\ versions[1].Version.Flavor # << >>
    /\ versions[2].Version.Flavor # << >>
    /\ Count(docOut.errs, FlavoredFinding(versions[2])) = 1
    /\ \A i \in DOMAIN docOut.errs : docOut.errs[i].line # versions[1].line
                                     \/ docOut.errs[i].kind # "Flavored"

\* The line of the entry a finding is about: the lower entry of the pair for
\* a not-greater finding, the entry itself otherwise.
ConcernedLine(f) == IF f.kind = "NotGreater" THEN f.line2 ELSE f.line

\* The number of rules the entries break: the top without a flavor on a
\* development branch, each flavored entry below the top, each pair out of order.
Violations ==
    (IF docOut.isDev /\ versions[1].Version.Flavor = << >> THEN 1 ELSE 0)
    + Cardinality({ k \in Pairs : versions[k].Version.Flavor # << >> })
    + Cardinality({ k \in Pairs :
                      ~GreaterThan(versions[k - 1].Version, versions[k].Version, FALSE) })

\* C11: Validate returns every finding in one list, one per broken rule; the
\* development-branch finding, if any, is the first, and the others follow in
\* the order of the lines of the entries they are about.
C11_FindingsInDocumentOrder ==
    ValidateDone /\ Len(versions) >= 1 =>
        /\ Len(docOut.errs) = Violations
        /\ \A i \in DOMAIN docOut.errs : docOut.errs[i].kind = "TopNotFlavored" => i = 1
        /\ \A i, j \in DOMAIN docOut.errs :
               i < j /\ docOut.errs[i].kind # "TopNotFlavored" =>
                   ConcernedLine(docOut.errs[i]) <= ConcernedLine(docOut.errs[j])

\* Validate(true) returned the development-branch finding and then findings
\* about two different entries further down.
C11_Witness ==
    /\ ValidateDone /\ docOut.isDev
    /\ Len(docOut.errs) >= 3
    /\ docOut.errs[1].kind = "TopNotFlavored"
    /\ \E i, j \in 2..Len(docOut.errs) :
           i < j /\ ConcernedLine(docOut.errs[i]) < ConcernedLine(docOut.errs[j])

\* A list of lines without the blank lines at its start and at its end.
RECURSIVE Trimmed(_)
Trimmed(ls) ==
    IF Len(ls) = 0 THEN ls
    ELSE IF IsBlank(ls[1]) THEN Trimmed(Tail(ls))
    ELSE IF IsBlank(ls[Len(ls)]) THEN Trimmed(SubSeq(ls, 1, Len(ls) - 1))
    ELSE ls

\* The notes of entry i: the lines after its heading and before the heading
\* of the next entry, or to the end of the document, trimmed and joined.
NotesOf(i) ==
    Join(Trimmed(SubSeq(lines, versions[i].line + 1,
                        IF i < Len(versions) THEN versions[i + 1].line - 1 ELSE Len(lines))),
         <<"\n">>)

\* The entries that declare the version v, flavor included.
Declaring(v) == { i \in 1..Len(versions) : versions[i].Version = v }

ReleaseNotesDone == docOut.op = "ReleaseNotes"

\* C13: ReleaseNotes(v) finds v exactly when an entry declares it, flavor
\* included; it then returns the trimmed lines between the heading of the
\* first such entry and the next heading or the end of the document, and
\* otherwise empty text; the range of lines it slices is always valid.
C13_ReleaseNotes ==
    ReleaseNotesDone =>
        /\ ~docOut.panics
        /\ docOut.found <=> Declaring(docOut.v) # {}
        /\ docOut.found =>
               /\ 0 <= docOut.startLine /\ docOut.startLine <= docOut.endLine
               /\ docOut.endLine <= Len(lines)
               /\ \E i \in Declaring(docOut.v) :
                      /\ \A j \in Declaring(docOut.v) : i <= j
                      /\ docOut.notes = NotesOf(i)
        /\ ~docOut.found => docOut.notes = << >>

\* The notes of the first of two entries were returned without the blank
\* line that follows its heading.
C13_Witness ==
    /\ ReleaseNotesDone /\ docOut.found
    /\ Len(versions) = 2
    /\ versions[1].Version = docOut.v
    /\ IsBlank(lines[versions[1].line + 1])
    /\ docOut.notes = << "x" >>
    /\ docOut.endLine = versions[2].line - 1

CurrentVersionNotesDone == docOut.op = "CurrentVersionNotes"

\* C12: CurrentVersionNotes returns the notes of the topmost entry as
\* ReleaseNotes does: the lines between the first heading and the next
\* heading or the end of the document, without the blank lines at both ends.
C12_CurrentNotesAreReleaseNotes ==
    CurrentVersionNotesDone /\ Len(versions) >= 1 =>
        /\ docOut.notes = NotesOf(1)
        /\ docOut.notes = ReleaseNotes(lines, versions, versions[1].Version).notes

\* The step is a call of AdjustCurrentVersion.
AdjustStep == calls' = calls + 1 /\ docOut'.op = "AdjustCurrentVersion"

\* The heading line that AdjustCurrentVersion(v, t) is to write for the entry
\* e whose heading is the line old: the marker and indent of old, v in the
\* style of e, the separator of old or two spaces, and the date.
AdjustedHeading(e, old, v, t) ==
    FindHeading(old).prefix \o Format(e.style, v)
        \o (IF FindHeading(old).sep = << >> THEN TwoSpaces ELSE FindHeading(old).sep)
        \o TimeFormat(t)

\* C14: AdjustCurrentVersion(v, date) on a document with entries returns true
\* and rewrites the heading line of the first entry, keeping its marker,
\* indent and separator (two spaces if it had none); no other line and no
\* other entry changes. On a document without entries it returns false and
\* changes nothing.
C14_AdjustRewritesTopHeading ==
    [][ AdjustStep =>
          IF Len(versions) = 0
          THEN ~docOut'.ret /\ lines' = lines /\ versions' = versions
          ELSE /\ docOut'.ret
               /\ Len(lines') = Len(lines)
               /\ \A i \in 1..Len(lines) : i # versions[1].line => lines'[i] = lines[i]
               /\ lines'[versions[1].line] =
                      AdjustedHeading(versions[1], lines[versions[1].line], docOut'.v, docOut'.t)
               /\ Len(versions') = Len(versions)
               /\ \A i \in 2..Len(versions) : versions'[i] = versions[i]
               /\ versions'[1].line = versions[1].line
               /\ versions'[1].prefix = versions[1].prefix
               /\ versions'[1].style = versions[1].style
               /\ versions'[1].Version = docOut'.v ]_vars

\* The first of two entries, on the second line and without a separator, was
\* rewritten with two spaces before the date; the lines around it are as read.
C14_Witness ==
    /\ docOut.op = "AdjustCurrentVersion" /\ docOut.ret /\ calls = 1
    /\ Len(versions) = 2 /\ Len(lines) = 3
    /\ versions[1].line = 2
    /\ lines[1] = Split(text)[1] /\ lines[3] = Split(text)[3]
    /\ lines[2] # Split(text)[2]
    /\ FindHeading(Split(text)[2]).sep = << >>
    /\ versions[1].sep = TwoSpaces
    /\ lines[2] = Format(versions[1].style, docOut.v) \o TwoSpaces \o TimeFormat(docOut.t)

\* The step is a call of AddNewVersion.
AddStep == calls' = calls + 1 /\ docOut'.op = "AddNewVersion"

\* The number of lines above the heading of the first entry; all the lines
\* when there is no entry.
LinesAbove == IF Len(versions) > 0 THEN versions[1].line - 1 ELSE Len(lines)

\* The date AddNewVersion writes for the time t: none for the zero time.
HeadingDate(t) == IF t = ZeroTime THEN << >> ELSE TimeFormat(t)

\* The heading AddNewVersion(v, t, ..) is to write: with entries, the marker,
\* indent and separator of the first heading line and the style of its entry;
\* without, no marker, the style that omits nothing, and two spaces before
\* the date if there is one.
AddedHeading(v, t) ==
    IF Len(versions) > 0
    THEN FindHeading(lines[versions[1].line]).prefix \o Format(versions[1].style, v)
             \o FindHeading(lines[versions[1].line]).sep \o HeadingDate(t)
    ELSE Format(NoStyle, v) \o (IF t = ZeroTime THEN << >> ELSE TwoSpaces) \o HeadingDate(t)

\* The lines of a body; none for the empty body.
BodyLines(content) == IF content = << >> THEN << >> ELSE Split(content)

\* The lines after the step are the lines before it with the block inserted
\* above the first heading, after at most one more empty line.
Inserted(block) ==
    \E pad \in { << >>, << << >> >> } :
        lines' = SubSeq(lines, 1, LinesAbove) \o pad \o block
                     \o SubSeq(lines, LinesAbove + 1, Len(lines))

\* C15 as stated: the block inserted is the heading, an empty line, the lines
\* of the body and one more empty line, whatever the body.
C15_AddInsertsBlockWithTrailingBlank ==
    [][ AddStep =>
          Inserted(<< AddedHeading(docOut'.v, docOut'.t), << >> >>
                       \o BodyLines(docOut'.content) \o << << >> >>) ]_vars

\* C15: AddNewVersion(v, date, body) inserts, above the first heading or at
\* the end of a document without entries, the new heading in the marker,
\* indent, style and separator of the first entry, an empty line and, when the
\* body is not empty, the lines of the body and one more empty line; the
\* original lines stay in their order, and the only other line added is at
\* most one empty line directly above the new heading.
C15_AddInsertsBlock ==
    [][ AddStep =>
          Inserted(<< AddedHeading(docOut'.v, docOut'.t), << >> >>
                       \o (IF docOut'.content = << >> THEN << >>
                           ELSE BodyLines(docOut'.content) \o << << >> >>)) ]_vars

\* A version with a body was added above the first heading of a text that
\* began with a line of notes: an empty line, the heading, an empty line, the
\* body and an empty line now stand between the notes and the old heading.
C15_Witness ==
    /\ docOut.op = "AddNewVersion" /\ ~docOut.err /\ calls = 1
    /\ docOut.content # << >>
    /\ Len(lines) = Len(Split(text)) + 5
    /\ Len(versions) >= 2
    /\ versions[1].line = 3 /\ versions[2].line = 7
    /\ versions[1].Version.Major = docOut.v.Major
    /\ lines[1] = Split(text)[1]
    /\ lines[2] = << >> /\ lines[4] = << >> /\ lines[6] = << >>
    /\ lines[5] = docOut.content
    /\ lines[7] = Split(text)[2]

\* determineVersionStyle has run.
Styled == repo.pc \in {"styled", "validated"}

\* The names of branches, tags and releases that parse as a version.
ParsedNames ==
    { n \in DOMAIN repo.branches \cup repo.tags \cup repo.releases : ParseStyle(n).ok }

\* The parsed names written without a patch digit.
NamesOmittingPatch == { n \in ParsedNames : ParseStyle(n).style.OmitPatch }

\* C16 as stated: the inferred style omits the patch digit only if every
\* parsed name omits it, and never when some parsed name shows one.
C16_OmitPatchOnlyIfAllOmit ==
    Styled =>
        /\ repo.versionStyle.OmitPatch => NamesOmittingPatch = ParsedNames
        /\ NamesOmittingPatch # ParsedNames => ~repo.versionStyle.OmitPatch

\* C16: the inferred style omits the patch digit exactly when at least one
\* parsed name omits it; it keeps the patch digit when every parsed name
\* shows one and when no name parses.
C16_OmitPatchIfAnyOmits ==
    Styled => (repo.versionStyle.OmitPatch <=> NamesOmittingPatch # {})

\* Names with and without patch digit were parsed, and the style inferred
\* omits the patch digit.
C16_Witness ==
    /\ Styled
    /\ NamesOmittingPatch # {}
    /\ NamesOmittingPatch # ParsedNames
    /\ repo.versionStyle.OmitPatch

\* The number of branches, tags and releases whose name parses with prefix p.
Occurrences(p) ==
    Cardinality({ n \in DOMAIN repo.branches : ParseStyle(n).ok /\ ParseStyle(n).style.Prefix = p })
    + Cardinality({ n \in repo.tags : ParseStyle(n).ok /\ ParseStyle(n).style.Prefix = p })
    + Cardinality({ n \in repo.releases : ParseStyle(n).ok /\ ParseStyle(n).style.Prefix = p })

\* C17: the inferred prefix occurs in some parsed name and no prefix occurs
\* more often; when no name parses the style is "release-" with patch digit.
C17_PrefixIsMostFrequent ==
    Styled =>
        IF ParsedNames = {}
        THEN repo.versionStyle = [Prefix |-> << "r", "e", "l", "e", "a", "s", "e", "-" >>,
                                  OmitPatch |-> FALSE]
        ELSE /\ Occurrences(repo.versionStyle.Prefix) >= 1
             /\ \A n \in ParsedNames :
                    Occurrences(ParseStyle(n).style.Prefix)
                        <= Occurrences(repo.versionStyle.Prefix)

\* Two prefixes occur, one more often than the other, and the one inferred
\* is the more frequent one.
C17_Witness ==
    /\ Styled
    /\ Occurrences(repo.versionStyle.Prefix) >= 2
    /\ \E n \in ParsedNames :
           /\ ParseStyle(n).style.Prefix # repo.versionStyle.Prefix
           /\ Occurrences(ParseStyle(n).style.Prefix) < Occurrences(repo.versionStyle.Prefix)

\* The versions of the set that no snapshot of the history declares, given
\* what each commit declares.
NeverDeclared(d, set) == { v \in set : \A h \in DOMAIN d : v \notin d[h] }

\* Whether the returned errors hold one that names the version v.
ErrorNames(v) ==
    \E i \in DOMAIN scan.errs :
        scan.errs[i].kind \notin {"Setup", "Log", "Read", "Parse"} /\ scan.errs[i].v = v

\* What C18 asks of the versions `unresolved` of a seed set, `missing` being
\* the set the scan worked on: they are still in it, and each has its error.
LeftAndReported(unresolved, missing) ==
    \A v \in unresolved : v \in missing /\ ErrorNames(v)

\* C18: when the function has returned after a scan, every version of the
\* initial missing sets that no snapshot declares is still unresolved and is
\* named by an error of its own in the returned list.
C18_UnresolvedVersionsReported ==
    ScanMade /\ scan.pc = "done" =>
        /\ LeftAndReported(NeverDeclared(DeclaredIn, scan.seedBranches), scan.missingBranches)
        /\ LeftAndReported(NeverDeclared(DeclaredIn, scan.seedTags), scan.missingTags)

\* The error the scan is to record for the failing commit h.
FailureOf(h) == IF scan.history[h].kind # "text" THEN ErrRead(h) ELSE ErrParse(h)

\* The commits of the history from h on, oldest first, that satisfy keep.
RECURSIVE CommitsFrom(_, _)
CommitsFrom(h, keep) ==
    IF h > Len(scan.history) THEN << >>
    ELSE (IF keep[h] THEN << h >> ELSE << >>) \o CommitsFrom(h + 1, keep)

\* The plan made by visiting the commits cs in turn, d[h] being the versions
\* commit h declares: each commit is paired with the versions it declares
\* that are still missing.
RECURSIVE PlanOver(_, _, _)
PlanOver(cs, d, missing) ==
    IF Len(cs) = 0 THEN << >>
    ELSE NewPairs(d[cs[1]], missing, cs[1]) \o PlanOver(Tail(cs), d, missing \ d[cs[1]])

\* The errors of the list that are about a commit.
CommitErrors(errs) == SelectSeq(errs, LAMBDA e : e.kind \in {"Read", "Parse"})

\* What C19 asks, given which commits fail and what each commit declares.
FailuresSkipped(failing, d) ==
    /\ CommitErrors(scan.errs) =
           [i \in 1..Len(CommitsFrom(1, failing)) |-> FailureOf(CommitsFrom(1, failing)[i])]
    /\ scan.branchesToCreate =
           PlanOver(CommitsFrom(1, [h \in DOMAIN failing |-> ~failing[h]]), d, scan.seedBranches)
    /\ scan.tagsToCreate =
           PlanOver(CommitsFrom(1, [h \in DOMAIN failing |-> ~failing[h]]), d, scan.seedTags)

\* The same, given what Read made of each snapshot.
FailuresSkippedGiven(r) ==
    FailuresSkipped([h \in DOMAIN r |-> ~r[h].ok], DeclaredGiven(r))

\* C19: after the scan the errors about commits are one for each commit that
\* could not be read or parsed, in the order visited, and both plans are the
\* plans that the other commits alone, visited in the same order, give.
C19_FailingCommitsAreSkipped ==
    ScanMade => FailuresSkippedGiven(SnapshotsReadFrom(1))

\* The first commit could not be read, the second did not parse, and the tag
\* of a version declared by the third is planned there.
C19_Witness ==
    /\ ScanMade
    /\ Len(scan.history) = 3
    /\ scan.history[1].kind # "text"
    /\ scan.history[2].kind = "text" /\ ~Read(scan.history[2].text).ok
    /\ SubSeq(scan.errs, 1, 2) = << ErrRead(1), ErrParse(2) >>
    /\ scan.tagsToCreate = << [v |-> V(1, 0, 0, << >>), h |-> 3] >>

\* The commits of the plan never get older along it (commits are named by
\* their place in the history, the oldest being 1).
Ascending(plan) == \A i, j \in DOMAIN plan : i < j => plan[i].h <= plan[j].h

\* The pairs a step appends to the plan all name the commit h.
AppendsAt(plan, planAfter, h) ==
    /\ SubSeq(planAfter, 1, Len(plan)) = plan
    /\ \A i \in (Len(plan) + 1)..Len(planAfter) : planAfter[i].h = h

\* C20: the scan starts with its first pass; pass k of the scan visits the
\* k-th oldest commit and is followed by pass k + 1, or by the end of the
\* scan after the newest commit; the pairs a pass appends name its commit,
\* and both plans list their commits from older to newer.
C20_OldestFirstAscendingPlans ==
    [][ /\ scan.pc = "start" /\ scan'.pc = "scan" => scan'.k = 1
        /\ scan.pc = "scan" =>
               /\ Visited(scan.log, scan.k) = scan.k
               /\ IF scan.k < Len(scan.history)
                  THEN scan'.pc = "scan" /\ scan'.k = scan.k + 1
                  ELSE scan'.pc # "scan"
               /\ AppendsAt(scan.branchesToCreate, scan'.branchesToCreate, scan.k)
               /\ AppendsAt(scan.tagsToCreate, scan'.tagsToCreate, scan.k)
        /\ scan.pc \notin {"start", "scan"} => scan'.pc # "scan"
        /\ Ascending(scan'.branchesToCreate)
        /\ Ascending(scan'.tagsToCreate) ]_vars

\* Three commits were visited and the plan of tags pairs two versions with
\* different commits, the older commit first.
C20_Witness ==
    /\ ScanMade
    /\ Len(scan.history) = 3
    /\ Len(scan.tagsToCreate) = 2
    /\ scan.tagsToCreate[1].h < scan.tagsToCreate[2].h
    /\ scan.tagsToCreate[2].h = 3

\* The scan has begun; the number of commits it has visited so far.
Scanning == scan.pc = "scan" \/ ScanMade
PassesDone == IF scan.pc = "scan" THEN scan.k - 1 ELSE Len(scan.history)

\* The n oldest commits, oldest first.
Oldest(n) == [i \in 1..n |-> i]

\* Whether the sequence p is the start of the sequence q.
IsPrefix(p, q) == Len(p) <= Len(q) /\ SubSeq(q, 1, Len(p)) = p

\* Whether the plan is the one that the history up to the commits visited and
\* the seed set determine, and the start of the one the whole history gives.
DeterminedPrefix(plan, d, seed) ==
    /\ plan = PlanOver(Oldest(PassesDone), d, seed)
    /\ IsPrefix(plan, PlanOver(Oldest(Len(scan.history)), d, seed))

\* C21: at every point of the scan each plan is a function of the commits
\* visited so far and of the initial missing set alone, and it is a prefix of
\* the plan that the scan of the whole history gives.
C21_PlanDeterminedAndPrefixStable ==
    Scanning =>
        LET d == DeclaredIn
        IN /\ DeterminedPrefix(scan.branchesToCreate, d, scan.seedBranches)
           /\ DeterminedPrefix(scan.tagsToCreate, d, scan.seedTags)

\* Two of three commits are visited: the plan of tags holds one pair, and the
\* third commit will add another.
C21_Witness ==
    /\ scan.pc = "scan" /\ scan.k = 3
    /\ Len(scan.history) = 3
    /\ Len(scan.tagsToCreate) = 1
    /\ Len(PlanOver(Oldest(3), DeclaredIn, scan.seedTags)) = 2

VersionsDone == docOut.op = "Versions"

\* The versions of the entries, in the order of the document.
DeclaredOrder == [i \in 1..Len(versions) |-> versions[i].Version]

PkgParsed == pkg # Idle /\ pkg.pc = "parsed"

RoundTrips(i, parsed) ==
    /\ parsed.ok
    /\ parsed.info.Name = i.Name
    /\ parsed.info.Version = i.Version
    /\ parsed.info.SHA = ShortSHA(i.SHA)

C23_PackageNameRoundTrip ==
    PkgParsed /\ InfoValidate(pkg.info) => RoundTrips(pkg.info, pkg.parsed)

\* What the code does keep: when the Name holds no dash at its end and no
\* path separator, the round trip of a validated Info holds (the versions
\* here have flavors of word characters only).
SaneName(n) == (Len(n) > 0 => n[Len(n)] # "-") /\ ~Contains(n, << "/" >>)

RoundTripOfSaneNames ==
    PkgParsed /\ InfoValidate(pkg.info) /\ SaneName(pkg.info.Name)
        => RoundTrips(pkg.info, pkg.parsed)

RoundTripReached ==
    /\ PkgParsed
    /\ InfoValidate(pkg.info)
    /\ SaneName(pkg.info.Name)
    /\ Len(pkg.info.SHA) > 6
    /\ pkg.info.Version.Flavor # << >>
    /\ pkg.dir # << >>
    /\ RoundTrips(pkg.info, pkg.parsed)


\* The place of the step named what in the steps doRelease has done, 0 when
\* it was not done.
DoneAt(what) ==
    IF \E i \in 1..Len(rel.done) : rel.done[i] = what
    THEN CHOOSE i \in 1..Len(rel.done) : rel.done[i] = what
    ELSE 0

Releasing == rel # Idle /\ rel.pc # "start"

MainPushed == DoneAt("main branch") > 0

\* C24: the main branch is pushed only after the release commit, the push of
\* the release branch, the push of the release tag and the creation of the
\* release, done in this order and all without error; when the topmost
\* version has no flavor, the head of the branch has moved or a step failed,
\* doRelease returns an error and the main branch is not pushed.
C24_MainPushedLastAndOnlyOnSuccess ==
    Releasing =>
        /\ MainPushed =>
               /\ 0 < DoneAt("release commit")
               /\ DoneAt("release commit") < DoneAt("release branch")
               /\ DoneAt("release branch") < DoneAt("release tag")
               /\ DoneAt("release tag") < DoneAt("release")
               /\ DoneAt("release") < DoneAt("main branch")
               /\ rel.err = ""
        /\ rel.err # "" => rel.pc = "returned" /\ ~MainPushed
        /\ CurrentVersion(Read(text).versions).Flavor = << >> =>
               rel.pc = "returned" /\ rel.err = ErrNothingToRelease /\ rel.done = << >>
        /\ rel.head = "moved" =>
               rel.pc = "returned" /\ rel.err = ErrNewChanges /\ rel.done = << >>
        /\ rel.pc = "returned" /\ rel.err = "" => MainPushed

C24_Witness ==
    /\ Releasing
    /\ rel.pc = "returned"
    /\ rel.err = ""
    /\ rel.done = << "release commit", "release branch", "release tag", "release",
                     "stub commit", "main branch" >>


\* The entries of the document doRelease started from.
OriginalVersions == Read(text).versions

\* doRelease has made both its changes to the document.
Stubbed == rel # Idle /\ DoneAt("release") > 0 /\ rel.pc # "released"

\* C25: when the document of the branch yields no findings from
\* Validate(true) and the released version is not below its current version,
\* flavors ignored, the document after AdjustCurrentVersion and AddNewVersion
\* yields no findings from Validate(true) either, and its second entry is
\* the released version without flavor.
C25_ReleaseKeepsChangesValid ==
    /\ Stubbed
    /\ Validate(OriginalVersions, TRUE) = << >>
    /\ GreaterEqualTo(rel.v, CurrentVersion(OriginalVersions), FALSE)
    => /\ Validate(versions, TRUE) = << >>
       /\ Len(versions) >= 2
       /\ versions[2].Version = rel.v
       /\ rel.v.Flavor = << >>
       /\ versions[1].Version = NextVer(rel.v, CurrentVersion(OriginalVersions).Flavor)

C25_Witness ==
    /\ Stubbed
    /\ Validate(OriginalVersions, TRUE) = << >>
    /\ Len(OriginalVersions) >= 2
    /\ GreaterThan(rel.v, CurrentVersion(OriginalVersions), FALSE)
    /\ Validate(versions, TRUE) = << >>
    /\ Len(versions) = Len(OriginalVersions) + 1


\* The versions of a plan.
PlanSet(plan) == { plan[i].v : i \in DOMAIN plan }

\* What C26 asks of one kind: the plan and the versions still unresolved are
\* disjoint, together they are the initial missing set, and no version is
\* twice in the plan.
Bookkept(plan, missing, seed) ==
    /\ PlanSet(plan) \cap missing = {}
    /\ PlanSet(plan) \cup missing = seed
    /\ \A i, j \in DOMAIN plan : plan[i].v = plan[j].v => i = j

\* The versions a step resolves for one kind leave the sets of the other kind
\* (its plan before and after, its unresolved set before and after) as far
\* as they are not resolved there too.
LeavesAlone(resolved, plan, planAfter, missing, missingAfter) ==
    \A v \in resolved :
        /\ v \in missingAfter <=> v \in missing
        /\ v \in PlanSet(planAfter) <=> v \in PlanSet(plan)

\* C26: after every visited commit, for branches and for tags independently,
\* the versions in the plan and the versions still unresolved are disjoint
\* and together the initial missing set, and no version is twice in a plan;
\* resolving a version for one kind does not change the sets of the other.
C26_ScanBookkeeping ==
    /\ [](Scanning =>
            /\ Bookkept(scan.branchesToCreate, scan.missingBranches, scan.seedBranches)
            /\ Bookkept(scan.tagsToCreate, scan.missingTags, scan.seedTags))
    /\ [][scan.pc = "scan" =>
            LET b == PlanSet(scan'.branchesToCreate) \ PlanSet(scan.branchesToCreate)
                t == PlanSet(scan'.tagsToCreate) \ PlanSet(scan.tagsToCreate)
            IN /\ LeavesAlone(b \ t, scan.tagsToCreate, scan'.tagsToCreate,
                              scan.missingTags, scan'.missingTags)
               /\ LeavesAlone(t \ b, scan.branchesToCreate, scan'.branchesToCreate,
                              scan.missingBranches, scan'.missingBranches)]_vars

\* After the second of three commits a version is planned for branches that
\* was never missing for tags, while another is still unresolved for tags.
C26_Witness ==
    /\ scan.pc = "scan" /\ scan.k = 3
    /\ PlanSet(scan.branchesToCreate) = { V(1, 0, 0, << >>) }
    /\ scan.missingBranches = { V(2, 0, 0, << >>) }
    /\ scan.seedTags = { V(2, 0, 0, << >>) }
    /\ scan.tagsToCreate = << >>
    /\ scan.missingTags = { V(2, 0, 0, << >>) }


\* The errors of the list errs that a failed creation left.
CreationErrors(errs) == { errs[i] : i \in DOMAIN errs }

\* What C27 asks of one kind in a state: the versions whose creation failed
\* and the versions the scan has not resolved are in the repo's set, and the
\* count of creations is the number of versions taken out of it.
RepoSetKept(rMissing, seed, plan, failed, numCreated, scanned) ==
    /\ rMissing \subseteq seed
    /\ failed \subseteq rMissing
    /\ scanned => (seed \ PlanSet(plan)) \subseteq rMissing
    /\ numCreated = Cardinality(seed \ rMissing)

\* What C27 asks of one kind in a step: the repo's set changes only in a pass
\* of that kind's creation loop whose creation succeeded, by the version of
\* that pass alone.
RemovedOnSuccess(rMissing, rMissingAfter, pc, plan) ==
    rMissingAfter # rMissing =>
        /\ scan.pc = pc
        /\ rMissingAfter = rMissing \ {plan[scan.k].v}
        /\ scan'.errs = scan.errs

\* C27: a version leaves the repo's missing-branch (missing-tag) set only
\* when the creation of its branch (tag) succeeded; a version whose creation
\* failed or that the scan never resolved stays in it, the scan working on
\* copies; the returned counts are the numbers of versions removed.
C27_RemovedOnlyWhenCreated ==
    /\ [](scan # Idle =>
            /\ RepoSetKept(scan.rMissingBranches, scan.seedBranches, scan.branchesToCreate,
                           { v \in scan.seedBranches : ErrBranch(v) \in CreationErrors(scan.errs) },
                           scan.numCreatedBranches, ScanMade)
            /\ RepoSetKept(scan.rMissingTags, scan.seedTags, scan.tagsToCreate,
                           { v \in scan.seedTags : ErrTag(v) \in CreationErrors(scan.errs) },
                           scan.numCreatedTags, ScanMade))
    /\ [][ /\ RemovedOnSuccess(scan.rMissingBranches, scan'.rMissingBranches, "branches",
                               scan.branchesToCreate)
           /\ RemovedOnSuccess(scan.rMissingTags, scan'.rMissingTags, "tags",
                               scan.tagsToCreate) ]_vars

\* The function has returned: the branch of one version was created and its
\* tag failed, and the branch of another version was never resolved.
C27_Witness ==
    /\ scan.pc = "done"
    /\ ScanMade
    /\ scan.numCreatedBranches = 1
    /\ scan.seedBranches = { V(1, 0, 0, << >>), V(2, 0, 0, << >>) }
    /\ scan.rMissingBranches = { V(2, 0, 0, << >>) }
    /\ V(2, 0, 0, << >>) \notin PlanSet(scan.branchesToCreate)
    /\ ErrTag(V(1, 0, 0, << >>)) \in CreationErrors(scan.errs)
    /\ V(1, 0, 0, << >>) \in scan.rMissingTags


Flowing == rel # Idle

\* The step of creating branches and tags left an error.
CreatingFailed == \E i \in DOMAIN rel.errs : rel.errs[i] = ErrCreating

\* A tag named for v is in r.tags and its CHANGES holds release notes for v.
TaggedWithNotes(v) ==
    LET tagName == TagNameForVersion(rel.versionStyle, v)
    IN /\ tagName \in DOMAIN rel.tags
       /\ \E i \in DOMAIN rel.tags[tagName].versions :
              rel.tags[tagName].versions[i].Version = v

\* An error about v is in the list.
ReleaseErrorFor(v, errs) ==
    \E i \in DOMAIN errs : errs[i] \in {ErrNoTag(v), ErrNoNotes(v), ErrRelease(v)}

\* C28: a release for a missing version is created only if the step before
\* recorded no error and the tags, as fetched last, hold a tag named for the
\* version whose CHANGES has release notes for it; otherwise no release is
\* created for it, an error is recorded where the creation was attempted, and
\* the version stays in the missing-release set.
C28_ReleaseCreationGated ==
    /\ [](Flowing =>
            /\ \A v \in rel.released : ~CreatingFailed /\ TaggedWithNotes(v)
            /\ rel.missingReleases = rel.seedReleases \ rel.released
            /\ rel.numCreatedReleases = Cardinality(rel.released)
            /\ CreatingFailed => rel.released = {} /\ rel.todo = {})
    /\ [][Flowing /\ rel.pc = "releases" =>
            \A v \in rel.todo \ rel'.todo :
                IF ~TaggedWithNotes(v)
                THEN /\ v \notin rel'.released
                     /\ v \in rel'.missingReleases
                     /\ ReleaseErrorFor(v, rel'.errs)
                ELSE v \in rel'.released \/ rel'.errs = Append(rel.errs, ErrRelease(v))]_vars

\* Branches and tags were created without error, the tags fetched again hold
\* the tag of one version but not of the other: one release is created, the
\* other is reported and still missing.
C28_Witness ==
    /\ Flowing
    /\ rel.pc = "restart"
    /\ rel.creating
    /\ rel.seedReleases = FlowVersions
    /\ rel.released = { V(2, 0, 0, << >>) }
    /\ rel.missingReleases = { V(1, 0, 0, << >>) }
    /\ rel.errs = << ErrNoTag(V(1, 0, 0, << >>)) >>


\* The name of the release branch of a major version in the style of the
\* repo: prefix, major, ".x.x", or ".x" when the style omits the patch digit.
ReleaseBranchOf(major) ==
    repo.versionStyle.Prefix \o Itoa(major)
        \o (IF repo.versionStyle.OmitPatch THEN << ".", "x" >> ELSE << ".", "x", ".", "x" >>)

\* C29: a version without flavor declared on the main branch is in the
\* missing-branch set exactly when no branch with a CHANGES file bears the
\* name of the release branch of its major version; so the versions of one
\* major version are all missing or all not, and nothing else is in the set.
C29_MissingBranchesPerMajor ==
    Validated =>
        /\ repo.missingBranches \subseteq Declared
        /\ \A v \in Declared :
               v \in repo.missingBranches <=> ReleaseBranchOf(v.Major) \notin DOMAIN repo.branches
        /\ \A v, w \in Declared :
               v.Major = w.Major => (v \in repo.missingBranches <=> w \in repo.missingBranches)

\* The release branch of one major version exists and neither of its two
\* declared versions is missing, while the version of another major is.
C29_Witness ==
    /\ Validated
    /\ \E v, w \in Declared \ repo.missingBranches : v # w /\ v.Major = w.Major
    /\ \E u \in Declared : u \in repo.missingBranches


\* The last call was an AddNewVersion that returned no error.
Added == docOut.op = "AddNewVersion" /\ ~docOut.err

\* C30: after AddNewVersion(v, date, body) has returned without error, for
\* any document, date and body, CurrentVersion() is v: the inserted heading
\* is the first entry of the document as parsed again.
C30_AddedIsCurrentVersion ==
    Added => CurrentVersion(versions) = docOut.v

\* A version was added, with a date, above a heading that has no separator
\* and omits the patch digit.
C30_Witness ==
    /\ Added
    /\ docOut.t # ZeroTime
    /\ Len(versions) >= 2
    /\ versions[1].sep = << >>
    /\ versions[2].style.OmitPatch
    /\ CurrentVersion(versions) = docOut.v

====
